---- MODULE Spec2Model ----
(***************************************************************************)
(* Model of the fix-augment extension's ValidationService                  *)
(* (src/src/services/ValidationService.ts) and the constants it reads      *)
(* (src/src/constants/index.ts).                                           *)
(*                                                                         *)
(* Representation.  A JavaScript value is a tagged record; a JavaScript    *)
(* string that the service inspects character by character (the text       *)
(* argument and every value computed from it by replace) is a sequence of  *)
(* one-character strings.  A message the service builds from literals and  *)
(* from numbers (a suggestion, a warning) is a sequence of segments, each  *)
(* a TLA+ string, whose concatenation is the JavaScript string; a number   *)
(* interpolated into a template literal is its decimal rendering.          *)
(***************************************************************************)
EXTENDS Integers, Sequences, FiniteSets, TLC

(***************************************************************************)
(* Bounds of the model.                                                    *)
(***************************************************************************)
MaxLen == 3

(***************************************************************************)
(* Program constants.                                                      *)
(***************************************************************************)
MAX_SAFE_INPUT_SIZE == 8000
COMPLEXITY_THRESHOLD == 2000
DEFAULT_MAX_SAFE_INPUT_SIZE == 8000
CONTEXT_REFRESH_THRESHOLD == 10

(***************************************************************************)
(* JavaScript values.                                                      *)
(***************************************************************************)
Null == [type |-> "null"]
Undefined == [type |-> "undefined"]
Str(s) == [type |-> "string", val |-> s]
Num(n) == [type |-> "number", val |-> n]
Bool(b) == [type |-> "boolean", val |-> b]
Obj == [type |-> "object"]

\* typeof v
TypeOf(v) == IF v.type = "null" THEN "object" ELSE v.type

\* !v : the values JavaScript treats as false are null, undefined, "", 0
\* and false
Falsy(v) ==
  \/ v.type \in {"null", "undefined"}
  \/ v.type = "string" /\ v.val = <<>>
  \/ v.type = "number" /\ v.val = 0
  \/ v.type = "boolean" /\ ~v.val

\* a truthy JavaScript value, as "a || b" and "if (a)" see it
Truthy(v) == ~Falsy(v)

(***************************************************************************)
(* Strings.                                                                *)
(***************************************************************************)
BS == "\\"
DQ == "\""
SQ == "'"
NL == "\n"
CR == "\r"

\* the line terminators, which "." of a regular expression does not match
LineTerminators == {NL, CR}

RECURSIVE Flatten(_, _, _)
\* the concatenation of pieces[lo], ..., pieces[hi]
Flatten(pieces, lo, hi) ==
  IF lo > hi THEN <<>>
  ELSE IF lo = hi THEN pieces[lo]
  ELSE LET mid == (lo + hi) \div 2
       IN Flatten(pieces, lo, mid) \o Flatten(pieces, mid + 1, hi)

\* text.replace(/c/g, rep) for a single character c
ReplaceChar(text, c, rep) ==
  Flatten([i \in 1..Len(text) |-> IF text[i] = c THEN rep ELSE <<text[i]>>],
          1, Len(text))

\* the i flag: both sides are compared after case folding (ASCII letters)
LowerTable ==
  [c \in {"A","B","C","D","E","F","G","H","I","J","K","L","M","N","O","P",
          "Q","R","S","T","U","V","W","X","Y","Z"} |->
     CASE c = "A" -> "a" [] c = "B" -> "b" [] c = "C" -> "c" [] c = "D" -> "d"
       [] c = "E" -> "e" [] c = "F" -> "f" [] c = "G" -> "g" [] c = "H" -> "h"
       [] c = "I" -> "i" [] c = "J" -> "j" [] c = "K" -> "k" [] c = "L" -> "l"
       [] c = "M" -> "m" [] c = "N" -> "n" [] c = "O" -> "o" [] c = "P" -> "p"
       [] c = "Q" -> "q" [] c = "R" -> "r" [] c = "S" -> "s" [] c = "T" -> "t"
       [] c = "U" -> "u" [] c = "V" -> "v" [] c = "W" -> "w" [] c = "X" -> "x"
       [] c = "Y" -> "y" [] c = "Z" -> "z"]

Lower(c) == IF c \in DOMAIN LowerTable THEN LowerTable[c] ELSE c

\* the lower-case word w occurs in text at position i, ignoring case
MatchAtI(text, w, i) ==
  /\ i >= 1
  /\ i + Len(w) - 1 <= Len(text)
  /\ \A k \in 1..Len(w) : Lower(text[i + k - 1]) = w[k]

\* the positions where w occurs in text, ignoring case
OccurrencesI(text, w) == {i \in 1..Len(text) : MatchAtI(text, w, i)}

\* /w/i.test(text)
TestWordI(text, w) == OccurrencesI(text, w) # {}

\* /w1.*w2/i.test(text) : w1, then any characters of one line, then w2
TestDotStarI(text, w1, w2) ==
  LET first == OccurrencesI(text, w1)
      second == IF first = {} THEN {} ELSE OccurrencesI(text, w2)
      breaks == {i \in 1..Len(text) : text[i] \in LineTerminators}
  IN \E i \in first : \E j \in second :
       /\ j >= i + Len(w1)
       /\ \A b \in breaks : ~(i + Len(w1) <= b /\ b < j)

\* a number interpolated into a template literal
Digit(d) ==
  CASE d = 0 -> "0" [] d = 1 -> "1" [] d = 2 -> "2" [] d = 3 -> "3"
    [] d = 4 -> "4" [] d = 5 -> "5" [] d = 6 -> "6" [] d = 7 -> "7"
    [] d = 8 -> "8" [] d = 9 -> "9"

RECURSIVE Dec(_)
Dec(n) ==
  IF n < 0 THEN "-" \o Dec(-n)
  ELSE IF n < 10 THEN Digit(n) ELSE Dec(n \div 10) \o Digit(n % 10)

(***************************************************************************)
(* constants/index.ts                                                      *)
(***************************************************************************)
\* each indicator is /w1.*w2/i, kept as the pair <<w1, w2>>
COMPLEXITY_INDICATORS ==
  << << <<"w","r","i","t","e">>,
        <<"d","o","c","u","m","e","n","t","a","t","i","o","n">> >>,
     << <<"c","r","e","a","t","e">>, <<"c","o","m","p","l","e","t","e">> >>,
     << <<"i","m","p","l","e","m","e","n","t">>, <<"e","n","t","i","r","e">> >>,
     << <<"b","u","i","l","d">>, <<"f","u","l","l">> >>,
     << <<"g","e","n","e","r","a","t","e">>, <<"a","l","l">> >>,
     << <<"r","e","f","a","c","t","o","r">>,
        <<"e","v","e","r","y","t","h","i","n","g">> >>,
     << <<"m","i","g","r","a","t","e">>, <<"a","l","l">> >> >>

(***************************************************************************)
(* ValidationService                                                       *)
(***************************************************************************)
\* the pattern without its lookbehind: every quote matches
AnyQuoteAt(text, i) == text[i] = DQ

\* /(?<!\\)"/ matches at position i of text
UnescapedQuoteAt(text, i) ==
  /\ text[i] = DQ
  /\ (i = 1 \/ text[i - 1] # BS)

\* the replace without the g flag: only the first match is replaced
fixDoubleQuotesFirstOnly(text) ==
  IF text = <<>> THEN text
  ELSE Flatten([i \in 1..Len(text) |->
                  IF /\ UnescapedQuoteAt(text, i)
                     /\ \A j \in 1..(i - 1) : ~UnescapedQuoteAt(text, j)
                  THEN <<BS, DQ>>
                  ELSE <<text[i]>>],
               1, Len(text))

fixDoubleQuotes(text) ==
  IF text = <<>> THEN text
  ELSE Flatten([i \in 1..Len(text) |->
                  IF UnescapedQuoteAt(text, i) THEN <<BS, DQ>>
                  ELSE <<text[i]>>],
               1, Len(text))

\* detection by a pattern that has no lookbehind
hasAnyDoubleQuotes(text) ==
  \E i \in 1..Len(text) : text[i] = DQ

hasUnescapedDoubleQuotes(text) ==
  \E i \in 1..Len(text) : UnescapedQuoteAt(text, i)

\* Math.floor in place of Math.ceil
FloorDiv(size, maxSize) == size \div maxSize

\* Math.ceil(size / maxSize) for a non-negative size and a positive maxSize
CeilDiv(size, maxSize) == (size + maxSize - 1) \div maxSize

checkInputSize(text) ==
  LET size == Len(text)
      maxSize == MAX_SAFE_INPUT_SIZE
  IN IF size > maxSize
     THEN LET ratio == CeilDiv(size, maxSize)
          IN [isLarge |-> TRUE,
              suggestion |->
                Str(<<"Input is ", Dec(size),
                      " characters (recommended max: ", Dec(maxSize), "). ",
                      "Consider breaking this into ", Dec(ratio),
                      " smaller tasks to avoid ",
                      "\"too large input\" errors and credit consumption.">>)]
     ELSE [isLarge |-> FALSE, suggestion |-> Undefined]

\* suggestions.join('\n') : the segments are the joined lines
generateBreakdownSuggestion(text) ==
  <<"This looks like a complex task. Consider breaking it down:",
    "",
    "1. Start with the main structure or skeleton",
    "2. Implement core functionality first",
    "3. Add features incrementally",
    "4. Test and refine each component",
    "5. Use \"continue from where you left off\" for incomplete responses",
    "",
    "Benefits:",
    "- Prevents \"too large input\" errors",
    "- Reduces credit loss from failed operations",
    "- Allows for better quality control",
    "- Easier to debug and iterate">>
  \o (IF \/ TestWordI(text, <<"d","o","c","u","m","e","n","t","a","t","i","o","n">>)
         \/ TestWordI(text, <<"d","o","c","s">>)
      THEN <<"", "For documentation: Start with outline, then fill sections one by one">>
      ELSE <<>>)
  \o (IF \/ TestWordI(text, <<"r","e","f","a","c","t","o","r">>)
         \/ TestWordI(text, <<"m","i","g","r","a","t","e">>)
      THEN <<"", "For refactoring: Tackle one module/file at a time">>
      ELSE <<>>)
  \o (IF \/ TestWordI(text, <<"t","e","s","t">>)
         \/ TestWordI(text, <<"t","e","s","t","i","n","g">>)
      THEN <<"", "For testing: Write tests for one component/function at a time">>
      ELSE <<>>)

\* the advisory without the length condition
suggestTaskBreakdownAnyLength(text) ==
  LET hasComplexity ==
        \E p \in 1..Len(COMPLEXITY_INDICATORS) :
          TestDotStarI(text, COMPLEXITY_INDICATORS[p][1],
                       COMPLEXITY_INDICATORS[p][2])
  IN IF hasComplexity
     THEN Str(generateBreakdownSuggestion(text))
     ELSE Null

suggestTaskBreakdown(text) ==
  LET hasComplexity ==
        \E p \in 1..Len(COMPLEXITY_INDICATORS) :
          TestDotStarI(text, COMPLEXITY_INDICATORS[p][1],
                       COMPLEXITY_INDICATORS[p][2])
  IN IF Len(text) > COMPLEXITY_THRESHOLD /\ hasComplexity
     THEN Str(generateBreakdownSuggestion(text))
     ELSE Null

ValidationError(message) ==
  [name |-> "ValidationError", type |-> "VALIDATION_ERROR",
   message |-> message]

\* the guard without its !text half: the empty string passes
isNotAString(arg) == TypeOf(arg) # "string"

\* !text || typeof text !== 'string'
isInvalidInput(arg) == Falsy(arg) \/ TypeOf(arg) # "string"

\* the warnings without the push for a complex task
collectWarningsNoBreakdown(sizeCheck, hasDoubleQuotes, breakdown) ==
  (IF sizeCheck.isLarge
   THEN << IF Truthy(sizeCheck.suggestion) THEN sizeCheck.suggestion
           ELSE Str(<<"Input size exceeds recommended limit">>) >>
   ELSE <<>>)
  \o (IF hasDoubleQuotes
      THEN << Str(<<"Contains unescaped double quotes that may cause errors">>) >>
      ELSE <<>>)

\* the three pushes onto the warnings array
collectWarnings(sizeCheck, hasDoubleQuotes, breakdown) ==
  (IF sizeCheck.isLarge
   THEN << IF Truthy(sizeCheck.suggestion) THEN sizeCheck.suggestion
           ELSE Str(<<"Input size exceeds recommended limit">>) >>
   ELSE <<>>)
  \o (IF hasDoubleQuotes
      THEN << Str(<<"Contains unescaped double quotes that may cause errors">>) >>
      ELSE <<>>)
  \o (IF Truthy(breakdown)
      THEN << Str(<<"Complex task detected - consider breaking down">>) >>
      ELSE <<>>)

validateInput(arg) ==
  IF isInvalidInput(arg)
  THEN [threw |-> TRUE,
        error |-> ValidationError("Invalid input: text must be a non-empty string")]
  ELSE
    LET text == arg.val
        sizeCheck == checkInputSize(text)
        hasDoubleQuotes == hasUnescapedDoubleQuotes(text)
        breakdown == suggestTaskBreakdown(text)
        warnings == collectWarnings(sizeCheck, hasDoubleQuotes, breakdown)
    IN [threw |-> FALSE,
        value |-> [isValid |-> Len(warnings) = 0,
                   isLarge |-> sizeCheck.isLarge,
                   hasDoubleQuotes |-> hasDoubleQuotes,
                   needsBreakdown |-> breakdown # Null,
                   suggestion |-> IF Truthy(breakdown) THEN breakdown
                                  ELSE sizeCheck.suggestion,
                   warnings |-> warnings]]

sanitizeText(text) ==
  IF text = <<>> THEN <<>>
  ELSE
    LET s1 == ReplaceChar(text, "<", <<"&","l","t",";">>)
        s2 == ReplaceChar(s1, ">", <<"&","g","t",";">>)
        s3 == ReplaceChar(s2, DQ, <<"&","q","u","o","t",";">>)
        s4 == ReplaceChar(s3, SQ, <<"&","#","x","2","7",";">>)
    IN ReplaceChar(s4, "/", <<"&","#","x","2","F",";">>)

(***************************************************************************)
(* The texts and values the operations are applied to.                     *)
(***************************************************************************)
Alphabet == {"a", DQ, BS, "&", "<", ">", SQ, "/"}

ShortTexts == UNION {[1..n -> Alphabet] : n \in 0..MaxLen}

\* the prompts of tests/unit/ValidationService.test.ts
DocumentationPrompt ==
  <<"W","r","i","t","e"," ","c","o","m","p","l","e","t","e"," ","d","o","c","u","m","e","n","t","a","t","i","o","n"," ","f","o","r"," ","a","l","l"," ","m","o","d","u","l","e","s"," ","w","i","t","h"," ","e","x","a","m","p","l","e","s"," ","a","n","d"," ","A","P","I"," ","r","e","f","e","r","e","n","c","e","s">>

RefactoringPrompt ==
  <<"R","e","f","a","c","t","o","r"," ","e","n","t","i","r","e"," ","c","o","d","e","b","a","s","e"," ","t","o"," ","u","s","e"," ","T","y","p","e","S","c","r","i","p","t"," ","w","i","t","h"," ","f","u","l","l"," ","t","y","p","e"," ","s","a","f","e","t","y">>

ComplexTaskPrompt ==
  <<"C","r","e","a","t","e"," ","c","o","m","p","l","e","t","e"," ","d","o","c","u","m","e","n","t","a","t","i","o","n"," ","w","i","t","h"," ","a","l","l"," ","e","x","a","m","p","l","e","s"," ","a","n","d"," ","A","P","I"," ","r","e","f","e","r","e","n","c","e","s"," ","f","o","r"," ","e","v","e","r","y"," ","m","o","d","u","l","e">>

ShortComplexPrompt ==
  <<"C","r","e","a","t","e"," ","c","o","m","p","l","e","t","e"," ","t","e","s","t">>

SimplePrompt == <<"F","i","x"," ","t","h","i","s"," ","b","u","g">>

\* an indicator whose two words are on different lines, and one with quotes
SplitLinePrompt == <<"b","u","i","l","d",NL,"f","u","l","l">>

QuotedPrompt == <<"B","u","i","l","d"," ",DQ,"f","u","l","l",DQ>>

Prompts ==
  {DocumentationPrompt, RefactoringPrompt, ComplexTaskPrompt,
   ShortComplexPrompt, SimplePrompt, SplitLinePrompt, QuotedPrompt}

\* the lengths around the two thresholds, and one of three times the maximum
PaddedLengths == {2000, 2001, 8000, 8001, 16001}

PaddedSeeds ==
  {DocumentationPrompt, RefactoringPrompt, SimplePrompt, SplitLinePrompt,
   QuotedPrompt}

\* seed followed by "x" up to n characters, as 'x'.repeat in the tests
Pad(seed, n) == seed \o [i \in 1..(n - Len(seed)) |-> "x"]

PaddedTexts == {Pad(seed, n) : seed \in PaddedSeeds, n \in PaddedLengths}

NonStrings == {Null, Undefined, Num(0), Num(42), Bool(FALSE), Bool(TRUE), Obj}

Inputs ==
  {Str(t) : t \in ShortTexts \cup Prompts \cup PaddedTexts} \cup NonStrings

\* values a user may give the fixAugment.maxSafeInputSize setting
SettingValues == {4000, DEFAULT_MAX_SAFE_INPUT_SIZE}

(***************************************************************************)
(* State: the value handed to the service, the host's setting, and the     *)
(* last call with its outcome.                                             *)
(***************************************************************************)
VARIABLES arg, maxSafeInputSize, last

(***************************************************************************)
(* State of the ContextService singleton, the clock Date.now() reads and   *)
(* the host's fixAugment.contextRefreshThreshold setting.                  *)
(***************************************************************************)
VARIABLES contextExchangeCount, sessionStartTime, lastContextRefresh,
          filesProcessed, now, contextRefreshThreshold

contextVars ==
  <<contextExchangeCount, sessionStartTime, lastContextRefresh,
    filesProcessed, now, contextRefreshThreshold>>

(***************************************************************************)
(* State of the ExtensionManager singleton and of the host around it: the  *)
(* flag, the status bar item (undefined before createStatusBar), the       *)
(* extension context kept by initialize, the 'fixAugment.enabled' context  *)
(* key, the refresh prompts shown and not answered yet, and the            *)
(* 'sessionData' entry of the global state.                                *)
(***************************************************************************)
VARIABLES enhancementActive, statusBarItem, context, fixAugmentEnabled,
          prompts, globalState

managerVars ==
  <<enhancementActive, statusBarItem, context, fixAugmentEnabled, prompts,
    globalState>>

vars == <<arg, maxSafeInputSize, last, contextVars, managerVars>>

NoCall == [op |-> "none"]

\* new ContextService(): the counters are 0, both times are Date.now()
ContextInit ==
  /\ contextExchangeCount = 0
  /\ sessionStartTime = 0
  /\ lastContextRefresh = 0
  /\ filesProcessed = 0
  /\ now = 0
  /\ contextRefreshThreshold = CONTEXT_REFRESH_THRESHOLD

\* a host that has not activated the extension: the manager as constructed,
\* no context key, no prompt, nothing persisted
ManagerInit ==
  /\ enhancementActive = TRUE
  /\ statusBarItem = Undefined
  /\ context = Undefined
  /\ fixAugmentEnabled = Undefined
  /\ prompts = 0
  /\ globalState = Undefined

Init ==
  /\ arg \in Inputs
  /\ maxSafeInputSize = DEFAULT_MAX_SAFE_INPUT_SIZE
  /\ last = NoCall
  /\ ContextInit
  /\ ManagerInit

\* the user edits the setting in the host
UpdateSetting(v) ==
  /\ v # maxSafeInputSize
  /\ maxSafeInputSize' = v
  /\ UNCHANGED <<arg, last>>
  /\ UNCHANGED contextVars
  /\ UNCHANGED managerVars

ValidateInput ==
  /\ last' = [op |-> "validateInput", setting |-> maxSafeInputSize,
              res |-> validateInput(arg)]
  /\ UNCHANGED <<arg, maxSafeInputSize>>
  /\ UNCHANGED contextVars
  /\ UNCHANGED managerVars

FixDoubleQuotes ==
  /\ arg.type = "string"
  /\ last' = [op |-> "fixDoubleQuotes", setting |-> maxSafeInputSize,
              out |-> fixDoubleQuotes(arg.val)]
  /\ UNCHANGED <<arg, maxSafeInputSize>>
  /\ UNCHANGED contextVars
  /\ UNCHANGED managerVars

CheckInputSize ==
  /\ arg.type = "string"
  /\ last' = [op |-> "checkInputSize", setting |-> maxSafeInputSize,
              out |-> checkInputSize(arg.val)]
  /\ UNCHANGED <<arg, maxSafeInputSize>>
  /\ UNCHANGED contextVars
  /\ UNCHANGED managerVars

SuggestTaskBreakdown ==
  /\ arg.type = "string"
  /\ last' = [op |-> "suggestTaskBreakdown", setting |-> maxSafeInputSize,
              out |-> suggestTaskBreakdown(arg.val)]
  /\ UNCHANGED <<arg, maxSafeInputSize>>
  /\ UNCHANGED contextVars
  /\ UNCHANGED managerVars

SanitizeText ==
  /\ arg.type = "string"
  /\ last' = [op |-> "sanitizeText", setting |-> maxSafeInputSize,
              out |-> sanitizeText(arg.val)]
  /\ UNCHANGED <<arg, maxSafeInputSize>>
  /\ UNCHANGED contextVars
  /\ UNCHANGED managerVars

Next ==
  \/ \E v \in SettingValues : UpdateSetting(v)
  \/ ValidateInput
  \/ FixDoubleQuotes
  \/ CheckInputSize
  \/ SuggestTaskBreakdown
  \/ SanitizeText

Spec == Init /\ [][Next]_vars

(***************************************************************************)
(* Properties.                                                             *)
(***************************************************************************)
\* the text of a string argument
Text == arg.val

Called(op) == last.op = op

\* C1: fixDoubleQuotes is idempotent: escaping the escaped text again
\* changes nothing, so an already escaped quote is never escaped twice.
C1_Idempotent ==
  Called("fixDoubleQuotes") => fixDoubleQuotes(last.out) = last.out

\* the call escaped a quote of a text that also held an escaped quote
C1_Witness ==
  /\ Called("fixDoubleQuotes")
  /\ last.out # Text
  /\ \E i \in 1..(Len(Text) - 1) : Text[i] = BS /\ Text[i + 1] = DQ

\* C2: fixDoubleQuotes inserts one backslash before each double quote that
\* is not immediately preceded by a backslash and changes nothing else:
\* the characters of the text keep their value and order, every other quote
\* stays as it is, and the empty text gives the empty text.
C2_EscapesExactly ==
  Called("fixDoubleQuotes") =>
    LET bare == {i \in 1..Len(Text) :
                   Text[i] = "\"" /\ (i = 1 \/ Text[i - 1] # "\\")}
        shift(i) == Cardinality({u \in bare : u <= i})
    IN /\ Len(last.out) = Len(Text) + Cardinality(bare)
       /\ \A i \in 1..Len(Text) : last.out[i + shift(i)] = Text[i]
       /\ \A u \in bare : last.out[u + shift(u) - 1] = "\\"
       /\ (Text = <<>> => last.out = <<>>)

\* the call escaped one quote and left an escaped one alone
C2_Witness ==
  /\ Called("fixDoubleQuotes")
  /\ Text = <<DQ, BS, DQ>>
  /\ last.out = <<BS, DQ, BS, DQ>>

\* C3: detection and escaping agree: validateInput of a non-empty text
\* reports hasDoubleQuotes exactly when fixDoubleQuotes changes the text,
\* and never reports it for a text fixDoubleQuotes has produced.
C3_DetectionMatchesEscaping ==
  (Called("validateInput") /\ arg.type = "string" /\ Text # <<>>) =>
    /\ ~last.res.threw
    /\ last.res.value.hasDoubleQuotes <=> (fixDoubleQuotes(Text) # Text)
    /\ ~validateInput(Str(fixDoubleQuotes(Text))).value.hasDoubleQuotes

\* a text with a quote after a backslash only: nothing is detected
C3_Witness ==
  /\ Called("validateInput")
  /\ arg = Str(<<BS, DQ, "a">>)
  /\ ~last.res.value.hasDoubleQuotes

\* C4: checkInputSize reports isLarge exactly when the text is longer than
\* the maximum (a text of exactly the maximum is not large); a large text
\* gets a suggestion naming its length, the maximum and the least number of
\* chunks of the maximum size that hold it; any other text gets none.
C4_SizeClassification ==
  Called("checkInputSize") =>
    LET size == Len(Text)
        chunks == CHOOSE k \in 0..size :
                    /\ k * MAX_SAFE_INPUT_SIZE >= size
                    /\ \A j \in 0..(k - 1) : j * MAX_SAFE_INPUT_SIZE < size
    IN /\ last.out.isLarge <=> (size > MAX_SAFE_INPUT_SIZE)
       /\ last.out.isLarge =>
            /\ last.out.suggestion.type = "string"
            /\ last.out.suggestion.val[2] = Dec(size)
            /\ last.out.suggestion.val[4] = Dec(MAX_SAFE_INPUT_SIZE)
            /\ last.out.suggestion.val[7] = Dec(chunks)
       /\ ~last.out.isLarge => last.out.suggestion = Undefined

\* a text of 16001 characters is large and needs three chunks
C4_Witness ==
  /\ Called("checkInputSize")
  /\ Len(Text) = 16001
  /\ last.out.isLarge
  /\ last.out.suggestion.val[7] = "3"

\* C5: the threshold of checkInputSize is the value of the
\* fixAugment.maxSafeInputSize setting at the time of the call.
C5_ThresholdIsSetting ==
  Called("checkInputSize") =>
    (last.out.isLarge <=> (Len(Text) > last.setting))

BroadTaskPrompts ==
  {Str(DocumentationPrompt), Str(RefactoringPrompt), Str(ComplexTaskPrompt)}

\* C7: for the single-sentence broad-task prompts of the tests,
\* suggestTaskBreakdown returns a suggestion that carries the breakdown
\* advice, and validateInput reports needsBreakdown with a warning.
C7_TestPromptsGetBreakdown ==
  arg \in BroadTaskPrompts =>
    /\ Called("suggestTaskBreakdown") =>
         /\ last.out # Null
         /\ last.out.val[1] =
              "This looks like a complex task. Consider breaking it down:"
    /\ Called("validateInput") =>
         /\ ~last.res.threw
         /\ last.res.value.needsBreakdown
         /\ Len(last.res.value.warnings) >= 1

\* C8: validateInput of a non-empty text is valid exactly when it has no
\* warning, which is when the text is not large, has no unescaped quote
\* and needs no breakdown; each of the three flags adds one warning.
C8_ValidIffNoWarnings ==
  (Called("validateInput") /\ arg.type = "string" /\ Text # <<>>) =>
    LET r == last.res.value
        count(b) == IF b THEN 1 ELSE 0
    IN /\ r.isValid <=> (r.warnings = <<>>)
       /\ (r.warnings = <<>>) <=>
            (~r.isLarge /\ ~r.hasDoubleQuotes /\ ~r.needsBreakdown)
       /\ Len(r.warnings) =
            count(r.isLarge) + count(r.hasDoubleQuotes)
              + count(r.needsBreakdown)
       /\ r.isLarge <=> (Len(Text) > MAX_SAFE_INPUT_SIZE)
       /\ r.hasDoubleQuotes <=>
            \E i \in 1..Len(Text) :
              Text[i] = "\"" /\ (i = 1 \/ Text[i - 1] # "\\")
       /\ r.needsBreakdown <=> (suggestTaskBreakdown(Text) # Null)

\* a large text with a quote and an indicator has three warnings
C8_Witness ==
  /\ Called("validateInput")
  /\ ~last.res.threw
  /\ ~last.res.value.isValid
  /\ Len(last.res.value.warnings) = 3

\* C9: validateInput raises a ValidationError of type VALIDATION_ERROR and
\* returns no report for null, undefined, a value that is not a string and
\* the empty string; for every non-empty string it returns a report.
C9_RaisesOnInvalid ==
  Called("validateInput") =>
    LET nonEmptyString == arg.type = "string" /\ arg.val # <<>>
    IN /\ nonEmptyString =>
            /\ ~last.res.threw
            /\ "value" \in DOMAIN last.res
       /\ ~nonEmptyString =>
            /\ last.res.threw
            /\ "value" \notin DOMAIN last.res
            /\ last.res.error.name = "ValidationError"
            /\ last.res.error.type = "VALIDATION_ERROR"

\* the empty string was rejected
C9_Witness ==
  /\ Called("validateInput")
  /\ arg = Str(<<>>)
  /\ last.res.threw

\* the number of positions of text where w occurs
CountOf(text, w) ==
  Cardinality({i \in 1..Len(text) :
                 /\ i + Len(w) - 1 <= Len(text)
                 /\ \A k \in 1..Len(w) : text[i + k - 1] = w[k]})

\* C10: sanitizeText escapes &, <, >, " and ' to entities, & first: the
\* output holds no raw <, >, " or ', and every & of the input appears in
\* it as the entity &amp;.
C10_EscapesFive ==
  Called("sanitizeText") =>
    /\ \A i \in 1..Len(last.out) : last.out[i] \notin {"<", ">", "\"", "'"}
    /\ CountOf(last.out, <<"&","a","m","p",";">>) = CountOf(Text, <<"&">>)

(***************************************************************************)
(* ValidationService: validateFilePath and validateWebviewMessage          *)
(***************************************************************************)
\* text.includes(w)
Includes(text, w) ==
  \E i \in 1..(Len(text) - Len(w) + 1) :
    \A k \in 1..Len(w) : text[i + k - 1] = w[k]

\* the check without the test for the home directory shorthand
validateFilePathNoHome(filePath) ==
  IF Falsy(filePath) \/ TypeOf(filePath) # "string" THEN FALSE
  ELSE IF Includes(filePath.val, <<".", ".">>) THEN FALSE
  ELSE TRUE

validateFilePath(filePath) ==
  IF Falsy(filePath) \/ TypeOf(filePath) # "string" THEN FALSE
  ELSE IF \/ Includes(filePath.val, <<".", ".">>)
          \/ Includes(filePath.val, <<"~">>)
       THEN FALSE
  ELSE TRUE

\* o.name for an object o: undefined when o has no such property
Get(o, name) == IF name \in DOMAIN o THEN o[name] ELSE Undefined

allowedCommands ==
  <<<<"r","e","f","r","e","s","h","D","a","s","h","b","o","a","r","d">>,
     <<"c","h","e","c","k","C","o","n","t","e","x","t","H","e","a","l","t","h">>,
     <<"r","e","f","r","e","s","h","C","o","n","t","e","x","t">>,
     <<"v","a","l","i","d","a","t","e","F","i","l","e","C","o","n","t","e","x","t">>,
     <<"o","p","t","i","m","i","z","e","P","r","o","m","p","t">>,
     <<"f","i","x","D","o","u","b","l","e","Q","u","o","t","e","s">>,
     <<"c","h","e","c","k","I","n","p","u","t","S","i","z","e">>,
     <<"s","u","g","g","e","s","t","B","r","e","a","k","d","o","w","n">>,
     <<"o","p","e","n","S","e","t","t","i","n","g","s">>,
     <<"o","p","e","n","D","a","s","h","b","o","a","r","d">>,
     <<"c","l","o","s","e","W","e","l","c","o","m","e">>>>

\* array.includes(v)
ArrayIncludes(array, v) == \E i \in 1..Len(array) : array[i] = v

\* the check without the whitelist: any command string passes
validateWebviewMessageAnyCommand(message) ==
  IF Falsy(message) \/ TypeOf(message) # "object" THEN FALSE
  ELSE IF \/ Falsy(Get(message, "command"))
          \/ TypeOf(Get(message, "command")) # "string"
       THEN FALSE
  ELSE TRUE

validateWebviewMessage(message) ==
  IF Falsy(message) \/ TypeOf(message) # "object" THEN FALSE
  ELSE IF \/ Falsy(Get(message, "command"))
          \/ TypeOf(Get(message, "command")) # "string"
       THEN FALSE
  ELSE ArrayIncludes(allowedCommands, Get(message, "command").val)

\* paths: every short string over these characters, and the tests' paths
PathAlphabet == {".", "~", "a", "/"}

ShortPaths == UNION {[1..n -> PathAlphabet] : n \in 0..MaxLen}

ValidPath == <<"s","r","c","/","s","e","r","v","i","c","e","s","/","V","a","l","i","d","a","t","i","o","n","S","e","r","v","i","c","e",".","t","s">>

TraversalPath == <<".",".","/",".",".","/",".",".","/","e","t","c","/","p","a","s","s","w","d">>

HomePath == <<"~","/","s","e","c","r","e","t","/","f","i","l","e",".","t","x","t">>

\* the commands of WebviewMessageCommand that are not in the whitelist, and
\* strings that are no command at all
OtherCommands ==
  {<<"u","p","d","a","t","e","S","t","a","t","u","s">>,
   <<"u","p","d","a","t","e","M","e","t","r","i","c","s">>,
   <<"m","a","l","i","c","i","o","u","s","C","o","m","m","a","n","d">>,
   <<"r","e","f","r","e","s","h","d","a","s","h","b","o","a","r","d">>,
   <<>>}

CommandValues ==
  {Str(c) : c \in {allowedCommands[i] : i \in 1..Len(allowedCommands)}
                  \cup OtherCommands}
  \cup {Null, Num(0), Num(1), Bool(TRUE), Obj}

\* the objects a webview may post: with or without command, with or
\* without data
Messages ==
  {[type |-> "object", command |-> c] : c \in CommandValues}
  \cup {[type |-> "object", command |-> c, data |-> Str(<<"t","e","s","t">>)] :
          c \in CommandValues}
  \cup {Obj, [type |-> "object", data |-> Str(<<"t","e","s","t">>)]}

GuardInputs ==
  {Str(t) : t \in ShortPaths \cup {ValidPath, TraversalPath, HomePath,
                                   allowedCommands[1]}}
  \cup NonStrings \cup Messages

InitGuards ==
  /\ arg \in GuardInputs
  /\ maxSafeInputSize = DEFAULT_MAX_SAFE_INPUT_SIZE
  /\ last = NoCall
  /\ ContextInit
  /\ ManagerInit

ValidateFilePath ==
  /\ last' = [op |-> "validateFilePath", out |-> validateFilePath(arg)]
  /\ UNCHANGED <<arg, maxSafeInputSize>>
  /\ UNCHANGED contextVars
  /\ UNCHANGED managerVars

ValidateWebviewMessage ==
  /\ last' = [op |-> "validateWebviewMessage",
              out |-> validateWebviewMessage(arg)]
  /\ UNCHANGED <<arg, maxSafeInputSize>>
  /\ UNCHANGED contextVars
  /\ UNCHANGED managerVars

NextGuards ==
  \/ ValidateFilePath
  \/ ValidateWebviewMessage

SpecGuards == InitGuards /\ [][NextGuards]_vars

\* C11: validateFilePath returns false for a path that contains ".." or
\* "~" and for an empty or non-string value, and true for every other
\* non-empty string.
C11_PathRejected ==
  Called("validateFilePath") =>
    LET isString == arg.type = "string"
        dotdot == isString /\ \E i \in 1..(Len(arg.val) - 1) :
                                arg.val[i] = "." /\ arg.val[i + 1] = "."
        tilde == isString /\ \E i \in 1..Len(arg.val) : arg.val[i] = "~"
    IN last.out = (isString /\ arg.val # <<>> /\ ~dotdot /\ ~tilde)

\* a path with a home shorthand and no ".." was rejected
C11_Witness ==
  /\ Called("validateFilePath")
  /\ arg = Str(<<"~", "/", "a">>)
  /\ last.out = FALSE

\* C12: validateWebviewMessage returns true exactly for a non-null object
\* whose command is a string of the allowed set of eleven commands; null,
\* a value that is no object, a missing or non-string command and a command
\* outside the set give false.
C12_Whitelist ==
  Called("validateWebviewMessage") =>
    /\ Len(allowedCommands) = 11
    /\ last.out =
         /\ arg.type = "object"
         /\ "command" \in DOMAIN arg
         /\ arg.command.type = "string"
         /\ \E i \in 1..11 : allowedCommands[i] = arg.command.val

\* a command of the message type that is not whitelisted was rejected
C12_Witness ==
  /\ Called("validateWebviewMessage")
  /\ arg = [type |-> "object", command |-> Str(<<"u","p","d","a","t","e","S","t","a","t","u","s">>)]
  /\ last.out = FALSE

(***************************************************************************)
(* ContextService                                                          *)
(***************************************************************************)
\* bounds of the session model: the largest counter value and clock value
MaxCount == 2
MaxTime == 1

\* Math.floor(threshold * 0.7)
WarningThreshold(threshold) == (threshold * 7) \div 10

getContextHealth ==
  LET threshold == contextRefreshThreshold
      count == contextExchangeCount
      warningThreshold == WarningThreshold(threshold)
  IN IF count >= threshold
     THEN [status |-> "red",
           text |-> <<"Context refresh needed (", Dec(count), " exchanges)">>]
     ELSE IF count >= warningThreshold
     THEN [status |-> "yellow",
           text |-> <<"Context getting long (", Dec(count), " exchanges)">>]
     ELSE [status |-> "green",
           text |-> <<"Context healthy (", Dec(count), " exchanges)">>]

\* a refresh decision that waits until the count is above the threshold
shouldRefreshContextAbove == contextExchangeCount > contextRefreshThreshold

shouldRefreshContext == contextExchangeCount >= contextRefreshThreshold

exportSessionData ==
  [type |-> "object",
   contextExchangeCount |-> Num(contextExchangeCount),
   sessionStartTime |-> Num(sessionStartTime),
   lastContextRefresh |-> Num(lastContextRefresh),
   filesProcessed |-> Num(filesProcessed)]

\* an import that writes 0 into a field the record does not have
ImportedFieldOrZero(data, name, current) ==
  IF Get(data, name) # Undefined THEN Get(data, name).val ELSE 0

\* if (data.name !== undefined) this.name = data.name
ImportedField(data, name, current) ==
  IF Get(data, name) # Undefined THEN Get(data, name).val ELSE current

\* the records the host may hand to importSessionData: any of the four
\* fields may be absent
SessionFields ==
  {"contextExchangeCount", "sessionStartTime", "lastContextRefresh",
   "filesProcessed"}

CounterFields == {"contextExchangeCount", "filesProcessed"}

ImportCounts == (-1)..MaxCount

ImportTimes == 0..MaxTime

SessionRecords ==
  UNION {
    {[type |-> "object"] @@ f :
       f \in {g \in [S -> {Num(n) : n \in ImportCounts \cup ImportTimes}] :
                \A k \in S : g[k].val \in (IF k \in CounterFields
                                           THEN ImportCounts
                                           ELSE ImportTimes)}} :
    S \in SUBSET SessionFields}

InitContext ==
  /\ arg = Undefined
  /\ maxSafeInputSize = DEFAULT_MAX_SAFE_INPUT_SIZE
  /\ last = NoCall
  /\ ContextInit
  /\ ManagerInit

\* time passes between two calls
Tick ==
  /\ now < MaxTime
  /\ now' = now + 1
  /\ last' = NoCall
  /\ UNCHANGED <<arg, maxSafeInputSize, contextExchangeCount,
                 sessionStartTime, lastContextRefresh, filesProcessed,
                 contextRefreshThreshold>>
  /\ UNCHANGED managerVars

IncrementExchangeCount ==
  /\ contextExchangeCount < MaxCount
  /\ contextExchangeCount' = contextExchangeCount + 1
  /\ last' = [op |-> "incrementExchangeCount"]
  /\ UNCHANGED <<arg, maxSafeInputSize, sessionStartTime, lastContextRefresh,
                 filesProcessed, now, contextRefreshThreshold>>
  /\ UNCHANGED managerVars

ResetExchangeCount ==
  /\ contextExchangeCount' = 0
  /\ lastContextRefresh' = now
  /\ last' = [op |-> "resetExchangeCount"]
  /\ UNCHANGED <<arg, maxSafeInputSize, sessionStartTime, filesProcessed,
                 now, contextRefreshThreshold>>
  /\ UNCHANGED managerVars

IncrementFilesProcessed ==
  /\ filesProcessed < MaxCount
  /\ filesProcessed' = filesProcessed + 1
  /\ last' = [op |-> "incrementFilesProcessed"]
  /\ UNCHANGED <<arg, maxSafeInputSize, contextExchangeCount,
                 sessionStartTime, lastContextRefresh, now,
                 contextRefreshThreshold>>
  /\ UNCHANGED managerVars

ResetSession ==
  /\ contextExchangeCount' = 0
  /\ sessionStartTime' = now
  /\ lastContextRefresh' = now
  /\ filesProcessed' = 0
  /\ last' = [op |-> "resetSession"]
  /\ UNCHANGED <<arg, maxSafeInputSize, now, contextRefreshThreshold>>
  /\ UNCHANGED managerVars

ExportSessionData ==
  /\ last' = [op |-> "exportSessionData", out |-> exportSessionData]
  /\ UNCHANGED <<arg, maxSafeInputSize>>
  /\ UNCHANGED contextVars
  /\ UNCHANGED managerVars

ImportSessionData(data) ==
  /\ contextExchangeCount' =
       ImportedField(data, "contextExchangeCount", contextExchangeCount)
  /\ sessionStartTime' =
       ImportedField(data, "sessionStartTime", sessionStartTime)
  /\ lastContextRefresh' =
       ImportedField(data, "lastContextRefresh", lastContextRefresh)
  /\ filesProcessed' = ImportedField(data, "filesProcessed", filesProcessed)
  /\ last' = [op |-> "importSessionData", data |-> data]
  /\ UNCHANGED <<arg, maxSafeInputSize, now, contextRefreshThreshold>>
  /\ UNCHANGED managerVars

GetContextHealth ==
  /\ last' = [op |-> "getContextHealth", out |-> getContextHealth]
  /\ UNCHANGED <<arg, maxSafeInputSize>>
  /\ UNCHANGED contextVars
  /\ UNCHANGED managerVars

ShouldRefreshContext ==
  /\ last' = [op |-> "shouldRefreshContext", out |-> shouldRefreshContext]
  /\ UNCHANGED <<arg, maxSafeInputSize>>
  /\ UNCHANGED contextVars
  /\ UNCHANGED managerVars

NextContext ==
  \/ Tick
  \/ IncrementExchangeCount
  \/ ResetExchangeCount
  \/ IncrementFilesProcessed
  \/ ResetSession
  \/ ExportSessionData
  \/ \E data \in SessionRecords : ImportSessionData(data)
  \/ GetContextHealth
  \/ ShouldRefreshContext

SpecContext == InitContext /\ [][NextContext]_vars

\* how one counter may change in a step of the claim as stated: up by one
\* in its increment, to 0 in a reset, and not at all otherwise
IncrementOrReset(before, after, op, increment, resets) ==
  /\ after >= 0
  /\ (after # before) =>
       \/ op = increment /\ after = before + 1
       \/ op \in resets /\ after = 0

\* C20 as stated: each session counter is a non-negative integer that
\* changes only by an increment of exactly 1 or by a reset to 0
\* (resetExchangeCount, resetSession); no other operation changes it.
C20_OnlyIncrementAndReset ==
  [][/\ IncrementOrReset(contextExchangeCount, contextExchangeCount',
                         last'.op, "incrementExchangeCount",
                         {"resetExchangeCount", "resetSession"})
     /\ IncrementOrReset(filesProcessed, filesProcessed', last'.op,
                         "incrementFilesProcessed",
                         {"resetExchangeCount", "resetSession"})]_vars

\* how one counter changes in a step: up by one in its increment, to 0 in
\* a reset that covers it, to the record's value in an import of a record
\* that has the field, and not at all otherwise
CounterStep(before, after, call, field, increment, resets) ==
  IF call.op = increment THEN after = before + 1
  ELSE IF call.op \in resets THEN after = 0
  ELSE IF call.op = "importSessionData" /\ field \in DOMAIN call.data
  THEN after = call.data[field].val
  ELSE after = before

\* C20 amended: a session counter changes only through its increment (by
\* exactly 1), through a reset (to 0: resetExchangeCount for the exchange
\* count, resetSession for both) and through importSessionData, which sets
\* each counter the imported record has to the record's value; no other
\* operation changes it, and it is negative only when a negative value was
\* imported.
C20_CountersChangeByCalls ==
  [][/\ CounterStep(contextExchangeCount, contextExchangeCount', last',
                    "contextExchangeCount", "incrementExchangeCount",
                    {"resetExchangeCount", "resetSession"})
     /\ CounterStep(filesProcessed, filesProcessed', last',
                    "filesProcessed", "incrementFilesProcessed",
                    {"resetSession"})
     /\ (contextExchangeCount' < 0 /\ contextExchangeCount >= 0) =>
          last'.op = "importSessionData"
     /\ (filesProcessed' < 0 /\ filesProcessed >= 0) =>
          last'.op = "importSessionData"]_vars

\* an import of a record with an exchange count and no file count set the
\* first and kept the second
C20_Witness ==
  /\ last.op = "importSessionData"
  /\ last.data = [type |-> "object", contextExchangeCount |-> Num(MaxCount)]
  /\ contextExchangeCount = MaxCount
  /\ filesProcessed = 1

(***************************************************************************)
(* Regular expressions, as the JavaScript engine runs them: a pattern is   *)
(* a tree, and matching a tree at a position gives the positions where a   *)
(* match may end, in the order in which backtracking tries them.           *)
(***************************************************************************)
TAB == "\t"
FF == "\f"
\* the backtick, which a string of this notation cannot hold
BT == "BACKTICK"

\* \s and String.prototype.trim agree on what white space is
WhiteSpace == {" ", TAB, NL, CR, FF}

\* \w
WordChars ==
  {"a","b","c","d","e","f","g","h","i","j","k","l","m","n","o","p","q","r",
   "s","t","u","v","w","x","y","z","A","B","C","D","E","F","G","H","I","J",
   "K","L","M","N","O","P","Q","R","S","T","U","V","W","X","Y","Z","0","1",
   "2","3","4","5","6","7","8","9","_"}

Lit(w) == [kind |-> "lit", w |-> w]
In(set) == [kind |-> "in", set |-> set]
NotIn(set) == [kind |-> "notin", set |-> set]
Cat(parts) == [kind |-> "seq", parts |-> parts]
Alt(parts) == [kind |-> "alt", parts |-> parts]
Group(sub) == [kind |-> "group", sub |-> sub]
\* sub{min,max}, greedy; max = -1 stands for no upper limit
Rep(sub, min, max) ==
  [kind |-> "rep", sub |-> sub, min |-> min, max |-> max, lazy |-> FALSE]
\* sub*?
LazyStar(sub) ==
  [kind |-> "rep", sub |-> sub, min |-> 0, max |-> -1, lazy |-> TRUE]
\* sub?
Opt(sub) == Rep(sub, 0, 1)
Bol == [kind |-> "bol"]
Eol == [kind |-> "eol"]
Dot == NotIn(LineTerminators)
AnyChar == NotIn({})
Star(sub) == Rep(sub, 0, -1)
Plus(sub) == Rep(sub, 1, -1)
Spaces == Plus(In(WhiteSpace))
OptSpaces == Star(In(WhiteSpace))
Word == Plus(In(WordChars))

\* the flags of a pattern
Flags(i, m) == [i |-> i, m |-> m]

CharIn(c, set, fl) ==
  \/ c \in set
  \/ fl.i /\ \E d \in set : Lower(d) = Lower(c)

LitAt(text, w, i, fl) ==
  /\ i + Len(w) - 1 <= Len(text)
  /\ \A k \in 1..Len(w) :
       \/ text[i + k - 1] = w[k]
       \/ fl.i /\ Lower(text[i + k - 1]) = Lower(w[k])

RECURSIVE MatchOne(_, _, _, _)
RECURSIVE MatchAll(_, _, _, _)
RECURSIVE MatchSeq(_, _, _, _, _)
RECURSIVE MatchRep(_, _, _, _, _, _, _)

\* the ends of the matches of re that start at position i, in the order
\* of preference
MatchOne(re, text, i, fl) ==
  CASE re.kind = "lit" ->
         IF LitAt(text, re.w, i, fl) THEN <<i + Len(re.w)>> ELSE <<>>
    [] re.kind = "in" ->
         IF i <= Len(text) /\ CharIn(text[i], re.set, fl)
         THEN <<i + 1>> ELSE <<>>
    [] re.kind = "notin" ->
         IF i <= Len(text) /\ ~CharIn(text[i], re.set, fl)
         THEN <<i + 1>> ELSE <<>>
    [] re.kind = "bol" ->
         IF i = 1 \/ (fl.m /\ text[i - 1] \in LineTerminators)
         THEN <<i>> ELSE <<>>
    [] re.kind = "eol" ->
         IF i = Len(text) + 1 \/ (fl.m /\ text[i] \in LineTerminators)
         THEN <<i>> ELSE <<>>
    [] re.kind = "group" -> MatchOne(re.sub, text, i, fl)
    [] re.kind = "seq" -> MatchSeq(re.parts, 1, text, <<i>>, fl)
    [] re.kind = "alt" ->
         Flatten([k \in 1..Len(re.parts) |->
                    MatchOne(re.parts[k], text, i, fl)], 1, Len(re.parts))
    [] re.kind = "rep" -> MatchRep(re.sub, re.min, re.max, re.lazy, text, i, fl)

\* the ends of the matches of re that start at one of the positions
MatchAll(re, text, starts, fl) ==
  Flatten([k \in 1..Len(starts) |-> MatchOne(re, text, starts[k], fl)],
          1, Len(starts))

\* parts[k], parts[k+1], ... one after the other
MatchSeq(parts, k, text, starts, fl) ==
  IF k > Len(parts) \/ starts = <<>> THEN starts
  ELSE MatchSeq(parts, k + 1, text, MatchAll(parts[k], text, starts, fl), fl)

\* the repetition of a single character class: the run of characters of
\* the class that starts at i gives every end at once
MatchRun(sub, min, max, lazy, text, i, fl) ==
  LET Fits(k) == /\ k <= Len(text)
                 /\ CharIn(text[k], sub.set, fl) = (sub.kind = "in")
      stop == CHOOSE j \in i..(Len(text) + 1) :
                /\ \A k \in i..(j - 1) : Fits(k)
                /\ ~Fits(j)
      hi == IF max >= 0 /\ i + max < stop THEN i + max ELSE stop
      lo == i + min
  IN IF hi < lo THEN <<>>
     ELSE [k \in 1..(hi - lo + 1) |-> IF lazy THEN lo + k - 1 ELSE hi - k + 1]

\* a greedy repetition tries one more round first, a lazy one tries to
\* stop first; a round that matches the empty string ends the repetition
MatchRep(sub, min, max, lazy, text, i, fl) ==
  IF sub.kind \in {"in", "notin"}
  THEN MatchRun(sub, min, max, lazy, text, i, fl)
  ELSE
  LET rounds == IF max = 0 THEN <<>>
                ELSE SelectSeq(MatchOne(sub, text, i, fl),
                               LAMBDA e : e > i \/ min > 0)
      less == IF min > 0 THEN min - 1 ELSE 0
      left == IF max > 0 THEN max - 1 ELSE max
      more == Flatten([k \in 1..Len(rounds) |->
                         MatchRep(sub, less, left, lazy, text, rounds[k],
                                  fl)],
                      1, Len(rounds))
  IN IF min > 0 THEN more
     ELSE IF lazy THEN <<i>> \o more
     ELSE more \o <<i>>

\* the least member of a set of positions, or 0 when it is empty
FirstOf(positions) ==
  IF positions = {} THEN 0
  ELSE CHOOSE i \in positions : \A j \in positions : i <= j

\* the match that starts at position s (0: there is none): its start and
\* its end
MatchAt(pattern, text, s) ==
  IF s = 0 THEN [start |-> 0, end |-> 0]
  ELSE [start |-> s, end |-> Head(MatchOne(pattern.re, text, s, pattern.fl))]

\* the first match of the pattern at or after position from
Exec(pattern, text, from) ==
  MatchAt(pattern, text,
          FirstOf({i \in from..(Len(text) + 1) :
                     MatchOne(pattern.re, text, i, pattern.fl) # <<>>}))

\* pattern.test(text), for a pattern without the g flag
Test(pattern, text) ==
  \E i \in 1..(Len(text) + 1) :
    MatchOne(pattern.re, text, i, pattern.fl) # <<>>

RECURSIVE Groups(_)
RECURSIVE GroupsOf(_, _)
\* the number of capture groups of a pattern
Groups(re) ==
  CASE re.kind = "group" -> 1 + Groups(re.sub)
    [] re.kind = "rep" -> Groups(re.sub)
    [] re.kind \in {"seq", "alt"} -> GroupsOf(re.parts, 1)
    [] OTHER -> 0

GroupsOf(parts, k) ==
  IF k > Len(parts) THEN 0 ELSE Groups(parts[k]) + GroupsOf(parts, k + 1)

RECURSIVE Matches(_, _, _)
RECURSIVE MatchesWith(_, _, _)
\* the successive matches of a pattern with the g flag, from position from
Matches(pattern, text, from) ==
  IF from > Len(text) + 1 THEN <<>>
  ELSE MatchesWith(pattern, text, Exec(pattern, text, from))

\* the match found, if any, and the matches after it
MatchesWith(pattern, text, found) ==
  IF found.start = 0 THEN <<>>
  ELSE <<found>> \o Matches(pattern, text,
                            IF found.end > found.start THEN found.end
                            ELSE found.start + 1)

\* the length of the array text.match(pattern) would return if the pattern
\* had the g flag: the number of successive matches
GlobalMatchCount(pattern, text) == Len(Matches(pattern, text, 1))

\* text.replace(pattern, callback) for a pattern with the g flag, given
\* the matches and what the callback returns for each of them
ReplaceAll(text, found, replaced) ==
  Flatten([j \in 1..(2 * Len(found) + 1) |->
             IF j % 2 = 0 THEN replaced[j \div 2]
             ELSE SubSeq(text,
                         IF j = 1 THEN 1 ELSE found[(j - 1) \div 2].end,
                         IF j > 2 * Len(found) THEN Len(text)
                         ELSE found[(j + 1) \div 2].start - 1)],
          1, 2 * Len(found) + 1)

\* a match array that holds one entry for each occurrence of the pattern
MatchLengthGlobal(pattern, text) == GlobalMatchCount(pattern, text)

\* the length of the array text.match(pattern) returns for a pattern
\* without the g flag: the match and one entry for each capture group;
\* 0 stands for null
MatchLength(pattern, text) ==
  IF Test(pattern, text) THEN 1 + Groups(pattern.re) ELSE 0
\* LANGUAGE_PATTERNS, in the order of the object's keys
LANGUAGE_PATTERNS ==
  << [language |-> <<"j","a","v","a","s","c","r","i","p","t">>, fl |-> Flags(FALSE, FALSE),
      re |-> Alt(<<Lit(<<"f","u","n","c","t","i","o","n">>), Lit(<<"c","o","n","s","t">>), Lit(<<"l","e","t">>),
                   Lit(<<"v","a","r">>), Lit(<<"=",">">>),
                   Cat(<<Lit(<<"i","m","p","o","r","t">>), Star(Dot), Lit(<<"f","r","o","m">>)>>)>>)],
     [language |-> <<"t","y","p","e","s","c","r","i","p","t">>, fl |-> Flags(FALSE, FALSE),
      re |-> Alt(<<Lit(<<"i","n","t","e","r","f","a","c","e">>), Lit(<<"t","y","p","e">>), Lit(<<"e","n","u","m">>),
                   Lit(<<"n","a","m","e","s","p","a","c","e">>),
                   Cat(<<Lit(<<"i","m","p","o","r","t">>), Star(Dot), Lit(<<"f","r","o","m">>),
                          Star(Dot), In({SQ, DQ}), Star(Dot),
                          Lit(<<".","t","s">>)>>)>>)],
     [language |-> <<"p","y","t","h","o","n">>, fl |-> Flags(FALSE, FALSE),
      re |-> Alt(<<Cat(<<Lit(<<"d","e","f">>), Spaces, Word, OptSpaces,
                          Lit(<<"(">>)>>),
                   Cat(<<Lit(<<"i","m","p","o","r","t">>), Spaces, Word>>),
                   Cat(<<Lit(<<"f","r","o","m">>), Spaces, Word, Spaces,
                          Lit(<<"i","m","p","o","r","t">>)>>),
                   Cat(<<Lit(<<"c","l","a","s","s">>), Spaces, Word, Lit(<<":">>)>>)>>)],
     [language |-> <<"j","a","v","a">>, fl |-> Flags(FALSE, FALSE),
      re |-> Alt(<<Cat(<<Lit(<<"p","u","b","l","i","c">>), Spaces, Lit(<<"c","l","a","s","s">>)>>),
                   Cat(<<Lit(<<"p","r","i","v","a","t","e">>), Spaces, Lit(<<"v","o","i","d">>)>>),
                   Cat(<<Lit(<<"i","m","p","o","r","t">>), Spaces, Lit(<<"j","a","v","a",".">>)>>)>>)],
     [language |-> <<"c","s","h","a","r","p">>, fl |-> Flags(FALSE, FALSE),
      re |-> Alt(<<Cat(<<Lit(<<"u","s","i","n","g">>), Spaces, Lit(<<"S","y","s","t","e","m">>)>>),
                   Cat(<<Lit(<<"n","a","m","e","s","p","a","c","e">>), Spaces, Word>>),
                   Cat(<<Lit(<<"p","u","b","l","i","c">>), Spaces, Lit(<<"c","l","a","s","s">>)>>)>>)],
     [language |-> <<"g","o">>, fl |-> Flags(FALSE, FALSE),
      re |-> Alt(<<Cat(<<Lit(<<"p","a","c","k","a","g","e">>), Spaces, Word>>),
                   Cat(<<Lit(<<"f","u","n","c">>), Spaces, Word>>),
                   Cat(<<Lit(<<"i","m","p","o","r","t">>), Spaces, Lit(<<"(">>)>>)>>)],
     [language |-> <<"r","u","s","t">>, fl |-> Flags(FALSE, FALSE),
      re |-> Alt(<<Cat(<<Lit(<<"f","n">>), Spaces, Word>>),
                   Cat(<<Lit(<<"l","e","t">>), Spaces, Lit(<<"m","u","t">>)>>),
                   Cat(<<Lit(<<"u","s","e">>), Spaces, Lit(<<"s","t","d",":",":">>)>>)>>)],
     [language |-> <<"c","p","p">>, fl |-> Flags(FALSE, FALSE),
      re |-> Alt(<<Cat(<<Lit(<<"#","i","n","c","l","u","d","e">>), OptSpaces, Lit(<<"<">>)>>),
                   Lit(<<"s","t","d",":",":">>), Lit(<<"c","o","u","t">>), Lit(<<"c","i","n">>)>>)],
     [language |-> <<"c">>, fl |-> Flags(FALSE, FALSE),
      re |-> Alt(<<Cat(<<Lit(<<"#","i","n","c","l","u","d","e">>), OptSpaces,
                          Lit(<<"<","s","t","d","i","o",".","h",">">>)>>),
                   Lit(<<"p","r","i","n","t","f">>), Lit(<<"s","c","a","n","f">>)>>)],
     [language |-> <<"h","t","m","l">>, fl |-> Flags(FALSE, FALSE),
      re |-> Alt(<<Lit(<<"<","h","t","m","l">>), Lit(<<"<","!","D","O","C","T","Y","P","E">>), Lit(<<"<","d","i","v">>),
                   Lit(<<"<","s","p","a","n">>)>>)],
     [language |-> <<"c","s","s">>, fl |-> Flags(FALSE, FALSE),
      re |-> Alt(<<Cat(<<Lit(<<"{">>), Star(NotIn({"}"})), Lit(<<":">>),
                          Star(NotIn({"}"})), Lit(<<"}">>)>>),
                   Lit(<<"@","m","e","d","i","a">>), Lit(<<"@","i","m","p","o","r","t">>)>>)],
     [language |-> <<"j","s","o","n">>, fl |-> Flags(FALSE, FALSE),
      re |-> Cat(<<Bol, OptSpaces, Lit(<<"{">>), Star(AnyChar), Lit(<<"}">>),
                    OptSpaces, Eol>>)],
     [language |-> <<"y","a","m","l">>, fl |-> Flags(FALSE, TRUE),
      re |-> Cat(<<Bol, Plus(In(WordChars \cup {"-"})), Lit(<<":">>),
                    OptSpaces, In(WordChars \cup {"-"})>>)],
     [language |-> <<"m","a","r","k","d","o","w","n">>, fl |-> Flags(FALSE, TRUE),
      re |-> Alt(<<Cat(<<Bol, Rep(Lit(<<"#">>), 1, 6), Spaces>>),
                   Cat(<<Lit(<<"[">>), Star(Dot), Lit(<<"]","(">>), Star(Dot),
                          Lit(<<")">>)>>),
                   Lit(<<BT,BT,BT>>)>>)],
     [language |-> <<"s","q","l">>, fl |-> Flags(TRUE, FALSE),
      re |-> Alt(<<Cat(<<Lit(<<"S","E","L","E","C","T">>), Spaces, Star(Dot), Spaces,
                          Lit(<<"F","R","O","M">>)>>),
                   Cat(<<Lit(<<"I","N","S","E","R","T">>), Spaces, Lit(<<"I","N","T","O">>)>>),
                   Cat(<<Lit(<<"U","P","D","A","T","E">>), Spaces, Star(Dot), Spaces,
                          Lit(<<"S","E","T">>)>>)>>)],
     [language |-> <<"s","h","e","l","l">>, fl |-> Flags(FALSE, FALSE),
      re |-> Alt(<<Cat(<<Bol, Lit(<<"#","!","/","b","i","n","/">>),
                          Group(Alt(<<Lit(<<"b","a","s","h">>), Lit(<<"s","h">>)>>))>>),
                   Cat(<<Lit(<<"e","c","h","o">>), Spaces>>),
                   Cat(<<Lit(<<"e","x","p","o","r","t">>), Spaces>>)>>)] >>

\* Math.min(n * 0.2, 1.0), in tenths
Confidence(n) == IF n * 2 < 10 THEN n * 2 ELSE 10

\* text.trim()
Trim(text) ==
  LET inner == {i \in 1..Len(text) : text[i] \notin WhiteSpace}
  IN IF inner = {} THEN <<>>
     ELSE LET lo == CHOOSE i \in inner : \A j \in inner : i <= j
              hi == CHOOSE i \in inner : \A j \in inner : j <= i
          IN SubSeq(text, lo, hi)

\* the detections array, in the order of the catalog
Detections(code) ==
  Flatten([k \in 1..Len(LANGUAGE_PATTERNS) |->
             LET pattern == LANGUAGE_PATTERNS[k]
             IN IF Test(pattern, code)
                THEN <<[language |-> pattern.language,
                        confidence |->
                          Confidence(MatchLength(pattern, code))]>>
                ELSE <<>>],
          1, Len(LANGUAGE_PATTERNS))

\* a ranking that leaves the candidates in the order of the catalog
SortKeepsCatalogOrder(detections) == detections

\* detections.sort((a, b) => b.confidence - a.confidence): the sort is
\* stable, so equal confidences keep the order of the catalog
SortByConfidence(detections) ==
  Flatten([k \in 1..11 |->
             SelectSeq(detections, LAMBDA d : d.confidence = 11 - k)],
          1, 11)

\* the choice that takes the first candidate whatever its confidence
BestOfAnyConfidence(detections) ==
  IF Len(detections) > 0 THEN detections[1] ELSE [confidence |-> 0]

\* detections[0] if there is one and its confidence is above 0.3
BestOf(detections) ==
  IF Len(detections) > 0 /\ detections[1].confidence > 3
  THEN detections[1]
  ELSE [confidence |-> 0]

detectLanguage(code) ==
  IF code = <<>> \/ Trim(code) = <<>> THEN [confidence |-> 0]
  ELSE BestOf(SortByConfidence(Detections(code)))

(***************************************************************************)
(* FormattingService                                                       *)
(***************************************************************************)
\* how a call ends
Returns(v) == [kind |-> "returns", value |-> v]
Throws(e) == [kind |-> "throws", error |-> e]

ProcessingError(message, code, details) ==
  [name |-> "ProcessingError", type |-> "PROCESSING_ERROR",
   message |-> message, code |-> code, details |-> details]

\* the position after the longest run of characters of set that starts at i
RunEnd(text, i, set) ==
  CHOOSE j \in i..(Len(text) + 1) :
    /\ \A k \in i..(j - 1) : text[k] \in set
    /\ j = Len(text) + 1 \/ text[j] \notin set

\* the first position at or after i that holds c, or 0
IndexOf(text, c, i) ==
  LET at == {j \in i..Len(text) : text[j] = c}
  IN IF at = {} THEN 0 ELSE CHOOSE j \in at : \A k \in at : j <= k

\* /```(\w+)?\s*([\s\S]*?)```/g
FENCE_PATTERN ==
  [fl |-> Flags(FALSE, FALSE),
   re |-> Cat(<<Lit(<<BT,BT,BT>>), Opt(Group(Word)), OptSpaces,
                Group(LazyStar(AnyChar)), Lit(<<BT,BT,BT>>)>>)]

\* /<function_results>([\s\S]*?)<\/function_results>/g
FUNCTION_RESULTS_PATTERN ==
  [fl |-> Flags(FALSE, FALSE),
   re |-> Cat(<<Lit(<<"<","f","u","n","c","t","i","o","n","_","r","e","s","u","l","t","s",">">>), Group(LazyStar(AnyChar)),
                Lit(<<"<","/","f","u","n","c","t","i","o","n","_","r","e","s","u","l","t","s",">">>)>>)]

\* /<augment_code_snippet([^>]*)>([\s\S]*?)<\/augment_code_snippet>/g
SNIPPET_PATTERN ==
  [fl |-> Flags(FALSE, FALSE),
   re |-> Cat(<<Lit(<<"<","a","u","g","m","e","n","t","_","c","o","d","e","_","s","n","i","p","p","e","t">>), Group(Star(NotIn({">"}))),
                Lit(<<">">>), Group(LazyStar(AnyChar)),
                Lit(<<"<","/","a","u","g","m","e","n","t","_","c","o","d","e","_","s","n","i","p","p","e","t",">">>)>>)]

\* /name="([^"]*)"/i
AttributePattern(name) ==
  [fl |-> Flags(TRUE, FALSE),
   re |-> Cat(<<Lit(name), Lit(<<"=", DQ>>), Group(Star(NotIn({DQ}))),
                Lit(<<DQ>>)>>)]

\* /<pre><code class="language-(\w+)">([\s\S]*?)<\/code><\/pre>/g
CODE_BLOCK_PATTERN ==
  [fl |-> Flags(FALSE, FALSE),
   re |-> Cat(<<Lit(<<"<","p","r","e",">","<","c","o","d","e"," ","c","l","a","s","s","=",DQ,"l","a","n","g","u","a","g","e","-">>), Group(Word),
                Lit(<<DQ,">">>), Group(LazyStar(AnyChar)),
                Lit(<<"<","/","c","o","d","e",">","<","/","p","r","e",">">>)>>)]

\* the groups of a match of FENCE_PATTERN: the tag is the longest run of
\* word characters after the opening fence (absent when empty), and the
\* code starts after the white space that follows it
FenceGroups(text, m) ==
  LET tagEnd == RunEnd(text, m.start + 3, WordChars)
      codeStart == RunEnd(text, tagEnd, WhiteSpace)
  IN [language |-> IF tagEnd > m.start + 3
                   THEN Str(SubSeq(text, m.start + 3, tagEnd - 1))
                   ELSE Undefined,
      code |-> SubSeq(text, codeStart, m.end - 4)]

\* the language of a detection, or '' when it has none
LanguageOf(detection) ==
  IF "language" \in DOMAIN detection THEN detection.language ELSE <<>>

\* a choice of tag that keeps the tag of the block and detects nothing
DetectedLangNoDetection(language, code) ==
  IF Truthy(language) THEN language.val ELSE <<>>

\* language || this.detectLanguage(code).language || ''
DetectedLang(language, code) ==
  IF Truthy(language) THEN language.val
  ELSE LanguageOf(detectLanguage(code))

\* the callback of the first replacement, on the groups of the match
FenceTemplate(g) ==
  <<BT,BT,BT>> \o DetectedLang(g.language, g.code) \o <<NL>> \o Trim(g.code)
  \o <<NL>> \o <<BT,BT,BT>>

FenceRewrite(text, m) == FenceTemplate(FenceGroups(text, m))

FunctionResultsRewrite(text, m) ==
  LET content == SubSeq(text, m.start + 18, m.end - 20)
  IN <<"<","d","e","t","a","i","l","s",">",NL,"<","s","u","m","m","a","r","y",">","F","u","n","c","t","i","o","n"," ","R","e","s","u","l","t","s","<","/","s","u","m","m","a","r","y",">",NL,NL,BT,BT,BT,NL>>
     \o Trim(content) \o <<NL,BT,BT,BT,NL,"<","/","d","e","t","a","i","l","s",">",NL>>

\* the first group of a match of AttributePattern(name), or otherwise
\* when there is no match
AttributeValue(attrs, name, m, otherwise) ==
  IF m.start = 0 THEN otherwise
  ELSE SubSeq(attrs, m.start + Len(name) + 2, m.end - 2)

\* attrs.match(/name="([^"]*)"/i)
Attribute(attrs, name, otherwise) ==
  AttributeValue(attrs, name, Exec(AttributePattern(name), attrs, 1),
                 otherwise)

SnippetRewrite(text, m) ==
  LET close == IndexOf(text, ">", m.start + 21)
      attrs == SubSeq(text, m.start + 21, close - 1)
      content == SubSeq(text, close + 1, m.end - 24)
  IN <<"<","a","u","g","m","e","n","t","_","c","o","d","e","_","s","n","i","p","p","e","t"," ","p","a","t","h","=",DQ>>
     \o Attribute(attrs, <<"p","a","t","h">>, <<"u","n","k","n","o","w","n">>)
     \o <<DQ," ","m","o","d","e","=",DQ>> \o Attribute(attrs, <<"m","o","d","e">>, <<"E","X","C","E","R","P","T">>)
     \o <<DQ,">",NL>> \o Trim(content) \o <<NL,"<","/","a","u","g","m","e","n","t","_","c","o","d","e","_","s","n","i","p","p","e","t",">">>

\* the three replacements, each on the matches of its pattern
ReplaceFences(text, found) ==
  ReplaceAll(text, found,
             [k \in 1..Len(found) |-> FenceRewrite(text, found[k])])

ReplaceFunctionResults(text, found) ==
  ReplaceAll(text, found,
             [k \in 1..Len(found) |-> FunctionResultsRewrite(text, found[k])])

ReplaceSnippets(text, found) ==
  ReplaceAll(text, found,
             [k \in 1..Len(found) |-> SnippetRewrite(text, found[k])])

EnhanceFences(text) ==
  ReplaceFences(text, Matches(FENCE_PATTERN, text, 1))

EnhanceFunctionResults(text) ==
  ReplaceFunctionResults(text, Matches(FUNCTION_RESULTS_PATTERN, text, 1))

EnhanceSnippets(text) ==
  ReplaceSnippets(text, Matches(SNIPPET_PATTERN, text, 1))

enhanceOutput(text) ==
  EnhanceSnippets(EnhanceFunctionResults(EnhanceFences(text)))

formatMarkdown(text) == enhanceOutput(text)

escapeHtml(text) ==
  ReplaceChar(
    ReplaceChar(
      ReplaceChar(
        ReplaceChar(ReplaceChar(text, "&", <<"&","a","m","p",";">>), "<", <<"&","l","t",";">>),
        ">", <<"&","g","t",";">>),
      DQ, <<"&","q","u","o","t",";">>),
    SQ, <<"&","#","0","3","9",";">>)

\* highlight.js: the languages it knows, and what its two entry points do
\* in a call; hljs.highlightThrows and hljs.autoThrows say whether they
\* throw
HljsLanguages == {<<"j","s">>, <<"s","h","e","l","l">>}

hljsGetLanguage(language) == language \in HljsLanguages

hljsHighlight(hljs, code, language) ==
  IF hljs.highlightThrows THEN Throws("highlight")
  ELSE Returns(<<"<","s","p","a","n"," ","c","l","a","s","s","=",DQ>> \o language \o <<DQ,">">> \o escapeHtml(code)
               \o <<"<","/","s","p","a","n",">">>)

hljsHighlightAuto(hljs, code) ==
  IF hljs.autoThrows THEN Throws("highlightAuto")
  ELSE Returns(<<"<","s","p","a","n"," ","c","l","a","s","s","=",DQ,"a","u","t","o",DQ,">">> \o escapeHtml(code) \o <<"<","/","s","p","a","n",">">>)

\* the body of the try block of highlightCode
Highlight(code, language, hljs) ==
  IF Truthy(language) /\ hljsGetLanguage(language.val)
  THEN hljsHighlight(hljs, code, language.val)
  ELSE hljsHighlightAuto(hljs, code)

\* catch: return this.escapeHtml(code)
EscapedOnFailure(tried, code) ==
  IF tried.kind = "throws" THEN Returns(escapeHtml(code)) ELSE tried

\* highlightCode without its catch clause
highlightCodeNoCatch(code, language, hljs) == Highlight(code, language, hljs)

highlightCode(code, language, hljs) ==
  EscapedOnFailure(Highlight(code, language, hljs), code)

\* marked.parse: it throws on what is not a string, it may throw on a
\* string, and otherwise it returns markup of one of a few shapes
markedParse(text, marked) ==
  IF TypeOf(text) # "string" \/ marked.throws THEN Throws("marked")
  ELSE Returns(
    CASE marked.shape = "paragraph" ->
           <<"<","p",">">> \o escapeHtml(text.val) \o <<"<","/","p",">",NL>>
      [] marked.shape = "code" ->
           <<"<","p","r","e",">","<","c","o","d","e",">">> \o escapeHtml(text.val) \o <<"<","/","c","o","d","e",">","<","/","p","r","e",">",NL>>
      [] marked.shape = "js" ->
           <<"<","p","r","e",">","<","c","o","d","e"," ","c","l","a","s","s","=",DQ,"l","a","n","g","u","a","g","e","-","j","s",DQ,">">> \o escapeHtml(text.val)
           \o <<"<","/","c","o","d","e",">","<","/","p","r","e",">",NL>>
      [] marked.shape = "zz" ->
           <<"<","p",">","a","<","/","p",">",NL,"<","p","r","e",">","<","c","o","d","e"," ","c","l","a","s","s","=",DQ,"l","a","n","g","u","a","g","e","-","z","z",DQ,">">>
           \o escapeHtml(text.val) \o <<"<","/","c","o","d","e",">","<","/","p","r","e",">",NL>>)

\* the callback of formatHTML, on the groups of the match and on what
\* highlightCode did
CodeBlockTemplate(match, language, highlighted) ==
  IF highlighted.kind = "throws" THEN match
  ELSE <<"<","p","r","e",">","<","c","o","d","e"," ","c","l","a","s","s","=",DQ,"l","a","n","g","u","a","g","e","-">> \o language \o <<" ","h","l","j","s",DQ,">">>
       \o highlighted.value \o <<"<","/","c","o","d","e",">","<","/","p","r","e",">">>

\* the language is the run of word characters after the opening, the
\* code what stands between the opening and the closing
CodeBlockGroups(text, m, tagEnd) ==
  [match |-> SubSeq(text, m.start, m.end - 1),
   language |-> SubSeq(text, m.start + 27, tagEnd - 1),
   code |-> SubSeq(text, tagEnd + 2, m.end - 14)]

HighlightBlock(g, hljs) ==
  CodeBlockTemplate(g.match, g.language,
                    highlightCode(g.code, Str(g.language), hljs))

CodeBlockRewrite(text, m, hljs) ==
  HighlightBlock(CodeBlockGroups(text, m,
                                 RunEnd(text, m.start + 27, WordChars)),
                 hljs)

ReplaceCodeBlocks(html, found, hljs) ==
  ReplaceAll(html, found,
             [k \in 1..Len(found) |-> CodeBlockRewrite(html, found[k], hljs)])

\* the body of the try block of formatHTML, on what marked.parse did
HighlightBlocks(parsed, hljs) ==
  IF parsed.kind = "throws" THEN parsed
  ELSE Returns(Str(ReplaceCodeBlocks(
                     parsed.value,
                     Matches(CODE_BLOCK_PATTERN, parsed.value, 1), hljs)))

\* catch: return text
TextOnFailure(done, text) ==
  IF done.kind = "throws" THEN Returns(text) ELSE done

formatHTML(text, marked, hljs) ==
  TextOnFailure(HighlightBlocks(markedParse(text, marked), hljs), text)

\* the switch of formatOutput; text.replace of a value that is not a
\* string throws a TypeError
Transform(text, format, marked, hljs) ==
  CASE format = "default" -> Returns(text)
    [] format \in {"enhanced", "markdown"} ->
         IF TypeOf(text) # "string" THEN Throws("TypeError")
         ELSE Returns(Str(IF format = "enhanced"
                          THEN enhanceOutput(text.val)
                          ELSE formatMarkdown(text.val)))
    [] format = "html" -> formatHTML(text, marked, hljs)
    [] OTHER -> Returns(text)

\* catch: throw new ProcessingError(..., { format })
ProcessingErrorOnFailure(done, format) ==
  IF done.kind = "throws"
  THEN Throws(ProcessingError("Failed to format output", "FORMAT_ERROR",
                              [format |-> format]))
  ELSE done

formatOutput(text, format, marked, hljs) ==
  IF Falsy(text) THEN Returns(text)
  ELSE ProcessingErrorOnFailure(Transform(text, format, marked, hljs), format)

\* the longest code given to the language detection, in tokens
MaxTokens == 3

DetectTokens == {<<"l","e","t">>, <<"c","i","n">>, <<" ">>, <<NL>>, <<"e","c","h","o"," ">>, <<"#","!","/","b","i","n","/","s","h">>, <<"x">>}

RECURSIVE TokenTexts(_)
\* the texts of at most n tokens
TokenTexts(n) ==
  IF n = 0 THEN {<<>>}
  ELSE {<<>>} \cup {t \o w : t \in DetectTokens, w \in TokenTexts(n - 1)}

\* texts with a fenced block: what stands before the block, its tag, the
\* white space before the content, the content and the white space after it
FencedTexts ==
  {before \o <<BT,BT,BT>> \o tag \o lead \o body \o trail \o <<BT,BT,BT>> :
     before \in {<<>>, <<"a",NL>>},
     tag \in {<<>>, <<"j","s">>},
     lead \in {<<>>, <<NL>>, <<NL," "," ">>},
     body \in {<<>>, <<"x">>, <<"e","c","h","o"," ","h","i">>, <<"x",NL,NL," ","y">>},
     trail \in {<<>>, <<" ",NL>>}}

\* a block that is not closed, and two blocks with text after them
OpenBlockText == <<"a",NL,BT,BT,BT,"j","s",NL,"x">>
TwoBlocksText == <<BT,BT,BT,NL,"#","!","/","b","i","n","/","s","h",NL,BT,BT,BT,NL,"b"," ",BT,BT,BT,"j","s"," ","x",BT,BT,BT," ","c">>

FunctionResultsText == <<"<","f","u","n","c","t","i","o","n","_","r","e","s","u","l","t","s",">"," ","o","k",NL,"<","/","f","u","n","c","t","i","o","n","_","r","e","s","u","l","t","s",">">>
SnippetText ==
  <<"<","a","u","g","m","e","n","t","_","c","o","d","e","_","s","n","i","p","p","e","t"," ","m","o","d","e","=",DQ,"F","U","L","L",DQ," ","P","A","T","H","=",DQ,"a","/","b",DQ,">",NL,"x",NL,"<","/","a","u","g","m","e","n","t","_","c","o","d","e","_","s","n","i","p","p","e","t",">">>
BareSnippetText == <<"<","a","u","g","m","e","n","t","_","c","o","d","e","_","s","n","i","p","p","e","t",">","x","<","/","a","u","g","m","e","n","t","_","c","o","d","e","_","s","n","i","p","p","e","t",">">>
MarkupText == <<"i","f"," ","(","a"," ","<"," ","b"," ","&","&"," ","c"," ",">"," ",SQ,"d",SQ,")"," ",DQ,"e",DQ>>

\* function results that hold a shell command
ShellResultsText == <<"<","f","u","n","c","t","i","o","n","_","r","e","s","u","l","t","s",">","e","c","h","o"," ","h","i","<","/","f","u","n","c","t","i","o","n","_","r","e","s","u","l","t","s",">">>
\* blocks whose tag is not made of word characters only
CppBlockText == <<"a",NL,BT,BT,BT,"c","+","+",NL,"i","n","t"," ","x",";",NL,BT,BT,BT>>
ObjcBlockText == <<BT,BT,BT,"o","b","j","e","c","t","i","v","e","-","c",NL,"x",NL,BT,BT,BT>>

TaggedTexts ==
  {FunctionResultsText, SnippetText, BareSnippetText, MarkupText,
   ShellResultsText}

DetectInputs == {Str(t) : t \in TokenTexts(MaxTokens)}

FormatInputs ==
  {Str(t) : t \in FencedTexts \cup TaggedTexts
                   \cup {OpenBlockText, TwoBlocksText, CppBlockText,
                         ObjcBlockText}}
  \cup NonStrings

Formats == {"default", "enhanced", "markdown", "html", "plain"}

Hints == {Undefined, Str(<<>>), Str(<<"j","s">>), Str(<<"z","z">>)}

HljsOutcomes == [highlightThrows : BOOLEAN, autoThrows : BOOLEAN]

MarkedOutcomes ==
  {[throws |-> TRUE, shape |-> "paragraph"]}
  \cup [throws : {FALSE}, shape : {"paragraph", "code", "js", "zz"}]

\* the libraries are used by the html format only
MarkedFor(format) ==
  IF format = "html" THEN MarkedOutcomes
  ELSE {[throws |-> FALSE, shape |-> "paragraph"]}

HljsFor(format) ==
  IF format = "html" THEN HljsOutcomes
  ELSE {[highlightThrows |-> FALSE, autoThrows |-> FALSE]}

InitDetect ==
  /\ arg \in DetectInputs
  /\ maxSafeInputSize = DEFAULT_MAX_SAFE_INPUT_SIZE
  /\ last = NoCall
  /\ ContextInit
  /\ ManagerInit

DetectLanguage ==
  /\ TypeOf(arg) = "string"
  /\ last' = [op |-> "detectLanguage", out |-> detectLanguage(arg.val)]
  /\ UNCHANGED <<arg, maxSafeInputSize>>
  /\ UNCHANGED contextVars
  /\ UNCHANGED managerVars

NextDetect == DetectLanguage

SpecDetect == InitDetect /\ [][NextDetect]_vars

InitFormat ==
  /\ arg \in FormatInputs
  /\ maxSafeInputSize = DEFAULT_MAX_SAFE_INPUT_SIZE
  /\ last = NoCall
  /\ ContextInit
  /\ ManagerInit

\* the service keeps no state between two calls: a behaviour is one call
HighlightCode(language, hljs) ==
  /\ last = NoCall
  /\ TypeOf(arg) = "string"
  /\ last' = [op |-> "highlightCode", language |-> language, hljs |-> hljs,
              out |-> highlightCode(arg.val, language, hljs)]
  /\ UNCHANGED <<arg, maxSafeInputSize>>
  /\ UNCHANGED contextVars
  /\ UNCHANGED managerVars

FormatOutput(format, marked, hljs) ==
  /\ last = NoCall
  /\ last' = [op |-> "formatOutput", format |-> format, marked |-> marked,
              hljs |-> hljs, out |-> formatOutput(arg, format, marked, hljs)]
  /\ UNCHANGED <<arg, maxSafeInputSize>>
  /\ UNCHANGED contextVars
  /\ UNCHANGED managerVars

NextFormat ==
  \/ \E language \in Hints : \E hljs \in HljsOutcomes :
       HighlightCode(language, hljs)
  \/ \E format \in Formats : \E marked \in MarkedFor(format) :
       \E hljs \in HljsFor(format) : FormatOutput(format, marked, hljs)

SpecFormat == InitFormat /\ [][NextFormat]_vars

\* C13: detectLanguage returns a confidence between 0 and 1; for an empty
\* or white-space-only input it returns confidence 0 and no language; the
\* result has a language iff its confidence is greater than 0.3, and is
\* exactly confidence 0 without a language otherwise.
C13_ConfidenceContract ==
  Called("detectLanguage") =>
    /\ last.out.confidence \in 0..10
    /\ Trim(Text) = <<>> => last.out = [confidence |-> 0]
    /\ ("language" \in DOMAIN last.out) <=> (last.out.confidence > 3)
    /\ "language" \notin DOMAIN last.out => last.out = [confidence |-> 0]

\* a shell command is detected with confidence 0.4
C13_Witness ==
  /\ Called("detectLanguage")
  /\ Text = <<"e","c","h","o"," ","x">>
  /\ last.out = [language |-> <<"s","h","e","l","l">>, confidence |-> 4]

\* C14: for each catalog language whose pattern matches the code, the
\* confidence is min(0.2 x n, 1.0) with n the number of occurrences of the
\* pattern in the code, so two or more occurrences give a confidence of at
\* least 0.4 and a language is returned.
C14_ConfidenceCountsOccurrences ==
  Called("detectLanguage") =>
    \A k \in 1..Len(LANGUAGE_PATTERNS) :
      LET pattern == LANGUAGE_PATTERNS[k]
          n == GlobalMatchCount(pattern, Text)
      IN (Trim(Text) # <<>> /\ Test(pattern, Text)) =>
           /\ \E j \in 1..Len(Detections(Text)) :
                /\ Detections(Text)[j].language = pattern.language
                /\ Detections(Text)[j].confidence = Confidence(n)
           /\ n >= 2 => /\ "language" \in DOMAIN last.out
                        /\ last.out.confidence >= 4

\* the transform of the last formatOutput call failed
TransformFailed ==
  /\ Truthy(arg)
  /\ \/ last.format \in {"enhanced", "markdown"} /\ TypeOf(arg) # "string"
     \/ last.format = "html" /\ markedParse(arg, last.marked).kind = "throws"

\* C17: whenever the transform of the requested format fails, html
\* included, formatOutput fails with a ProcessingError that carries the
\* format, and returns nothing in its place.
C17_FailureIsProcessingError ==
  (Called("formatOutput") /\ TransformFailed) =>
    /\ last.out.kind = "throws"
    /\ last.out.error.name = "ProcessingError"
    /\ last.out.error.details = [format |-> last.format]

\* the positions of the fence markers of a text
FenceMarkers(text) == {i \in 1..Len(text) : LitAt(text, <<BT,BT,BT>>, i,
                                                  Flags(FALSE, FALSE))}

\* the text is one untagged fenced block between two stretches of plain
\* text: it has two fence markers and no other backtick, the opening one is
\* not followed by a word character, and there is no markup
OneUntaggedBlock(text) ==
  LET ticks == {i \in 1..Len(text) : text[i] = BT}
  IN /\ Cardinality(ticks) = 6
     /\ Cardinality(FenceMarkers(text)) = 2
     /\ \A i \in 1..Len(text) : text[i] # "<"
     /\ LET open == CHOOSE i \in FenceMarkers(text) :
                      \A j \in FenceMarkers(text) : i <= j
        IN text[open + 3] \notin WordChars

\* the parts of such a text
BlockParts(text) ==
  LET open == CHOOSE i \in FenceMarkers(text) :
                \A j \in FenceMarkers(text) : i <= j
      close == CHOOSE i \in FenceMarkers(text) :
                 \A j \in FenceMarkers(text) : j <= i
  IN [before |-> SubSeq(text, 1, open - 1),
      content |-> SubSeq(text, open + 3, close - 1),
      after |-> SubSeq(text, close + 3, Len(text))]

\* the content without the blank lines at its start and at its end: from
\* the start of the first line that is not blank to the end of the last one
StripBlankLines(content) ==
  LET inner == {i \in 1..Len(content) : content[i] \notin WhiteSpace}
  IN IF inner = {} THEN <<>>
     ELSE LET first == CHOOSE i \in inner : \A j \in inner : i <= j
              final == CHOOSE i \in inner : \A j \in inner : j <= i
              lo == CHOOSE i \in 1..first :
                      /\ \A k \in i..first : content[k] \notin LineTerminators
                      /\ i = 1 \/ content[i - 1] \in LineTerminators
              hi == CHOOSE i \in final..Len(content) :
                      /\ \A k \in final..i : content[k] \notin LineTerminators
                      /\ i = Len(content)
                         \/ content[i + 1] \in LineTerminators
          IN SubSeq(content, lo, hi)

\* the content without the white space at its start
StripLeft(content) ==
  SubSeq(content, RunEnd(content, 1, WhiteSpace), Len(content))

\* the tag the detection gives a block content: the language, or nothing
DetectedTag(code) == LanguageOf(detectLanguage(code))

\* C18 as stated: in the enhanced and markdown formats an untagged fenced
\* block is re-emitted with the detected language of its content (untagged
\* when the confidence is 0), and only the blank lines at the start and
\* the end of the content are removed.
C18_OnlyBlankLinesRemoved ==
  (/\ Called("formatOutput")
   /\ last.format \in {"enhanced", "markdown"}
   /\ TypeOf(arg) = "string"
   /\ OneUntaggedBlock(Text)) =>
    LET p == BlockParts(Text)
    IN last.out =
         Returns(Str(p.before \o <<BT,BT,BT>> \o DetectedTag(StripLeft(p.content))
                     \o <<NL>> \o StripBlankLines(p.content) \o <<NL>>
                     \o <<BT,BT,BT>> \o p.after))

\* C18 amended: in the enhanced and markdown formats an untagged fenced
\* block is re-emitted with the language detected on its content taken
\* from its first character that is not white space (untagged when the
\* confidence is 0), and all the white space at the start and at the end
\* of the content is removed, the indentation of the first line and the
\* trailing spaces of the last line included; the rest is unchanged.
C18_WhiteSpaceTrimmed ==
  (/\ Called("formatOutput")
   /\ last.format \in {"enhanced", "markdown"}
   /\ TypeOf(arg) = "string"
   /\ OneUntaggedBlock(Text)) =>
    LET p == BlockParts(Text)
    IN last.out =
         Returns(Str(p.before \o <<BT,BT,BT>> \o DetectedTag(StripLeft(p.content))
                     \o <<NL>> \o Trim(p.content) \o <<NL>>
                     \o <<BT,BT,BT>> \o p.after))

\* an indented shell command in an untagged block comes out tagged and
\* without its indentation
C18_Witness ==
  /\ Called("formatOutput")
  /\ last.format = "enhanced"
  /\ arg = Str(<<BT,BT,BT,NL," "," ","e","c","h","o"," ","h","i"," ",NL,BT,BT,BT>>)
  /\ last.out = Returns(Str(<<BT,BT,BT,"s","h","e","l","l",NL,"e","c","h","o"," ","h","i",NL,BT,BT,BT>>))

\* C19: highlightCode never fails: with a hint the highlighter knows it
\* highlights against the hint, with an unknown or empty hint it
\* auto-detects, and when the highlighter throws on the path taken it
\* returns the escaped plain code; a failure of the highlighter never makes
\* formatOutput fail.
C19_HighlightNeverFails ==
  /\ Called("highlightCode") =>
       LET known == /\ last.language # Undefined
                    /\ last.language.val \in HljsLanguages
       IN last.out =
            IF known /\ ~last.hljs.highlightThrows
            THEN hljsHighlight(last.hljs, Text, last.language.val)
            ELSE IF ~known /\ ~last.hljs.autoThrows
            THEN hljsHighlightAuto(last.hljs, Text)
            ELSE Returns(escapeHtml(Text))
  /\ (/\ Called("formatOutput")
      /\ last.format = "html"
      /\ last.hljs.highlightThrows \/ last.hljs.autoThrows) =>
       last.out.kind = "returns"

\* the highlighter threw on a known hint and the code came back escaped
C19_Witness ==
  /\ Called("highlightCode")
  /\ Text = MarkupText
  /\ last.language = Str(<<"j","s">>)
  /\ last.hljs.highlightThrows
  /\ last.out = Returns(<<"i","f"," ","(","a"," ","&","l","t",";"," ","b"," ","&","a","m","p",";","&","a","m","p",";"," ","c"," ","&","g","t",";"," ","&","#","0","3","9",";","d","&","#","0","3","9",";",")"," ","&","q","u","o","t",";","e","&","q","u","o","t",";">>)

(***************************************************************************)
(* IChunkingService. The repository declares the service and the chunk     *)
(* type and sets the limits; the chunker itself is modelled from its       *)
(* description.                                                            *)
(***************************************************************************)
MIN_CHUNK_SIZE == 1000
MAX_CHUNK_SIZE == 10000
CONTEXT_OVERLAP_SIZE == 200

\* the context overlap: the trailing CONTEXT_OVERLAP_SIZE characters of the
\* content of the previous chunk
ContextPrefix(previous) ==
  SubSeq(previous,
         IF Len(previous) > CONTEXT_OVERLAP_SIZE
         THEN Len(previous) - CONTEXT_OVERLAP_SIZE + 1 ELSE 1,
         Len(previous))

\* a piece that starts again where the overlap of the previous one starts
PieceWithOverlap(text, ends, k) ==
  SubSeq(text,
         IF k = 1 THEN 1
         ELSE IF ends[k - 1] > CONTEXT_OVERLAP_SIZE
         THEN ends[k - 1] - CONTEXT_OVERLAP_SIZE + 1 ELSE 1,
         ends[k])

\* the k-th piece of the text: from the end of the piece before it to its
\* own end
Piece(text, ends, k) ==
  SubSeq(text, IF k = 1 THEN 1 ELSE ends[k - 1] + 1, ends[k])

RECURSIVE BuildChunks(_, _, _, _)
\* the chunks from the k-th on, given the content of the chunk before:
\* every chunk after the first carries the context overlap before its piece
BuildChunks(text, ends, k, previous) ==
  IF k > Len(ends) THEN <<>>
  ELSE IF k = 1
  THEN <<[content |-> Piece(text, ends, 1), index |-> 0,
          hasContext |-> FALSE]>>
       \o BuildChunks(text, ends, 2, Piece(text, ends, 1))
  ELSE <<[content |-> ContextPrefix(previous) \o Piece(text, ends, k),
          index |-> k - 1, hasContext |-> TRUE,
          contextPrefix |-> ContextPrefix(previous)]>>
       \o BuildChunks(text, ends, k + 1,
                      ContextPrefix(previous) \o Piece(text, ends, k))

\* the ends of the pieces of a fixed-size split
NaiveEnds(length, maxSize) ==
  [k \in 1..CeilDiv(length, maxSize) |->
     IF k * maxSize < length THEN k * maxSize ELSE length]

\* chunkText: the naive fixed-size split with the context overlap
chunkText(text, maxSize) ==
  IF TypeOf(text) # "string"
  THEN Throws(ValidationError("Text must be a string"))
  ELSE Returns(BuildChunks(text.val, NaiveEnds(Len(text.val), maxSize), 1,
                           <<>>))

\* the starts of the fence markers of a text, in order
FenceStarts(text) ==
  LET starts == {i \in 1..(Len(text) - 2) :
                   text[i] = BT /\ text[i + 1] = BT /\ text[i + 2] = BT}
  IN [k \in 1..Cardinality(starts) |->
        CHOOSE i \in starts : Cardinality({j \in starts : j <= i}) = k]

\* the fenced block that a chunk ending at position b would cut: the
\* opening marker starts at or before b and the closing marker, if there is
\* one, ends after b; 0 when b cuts no block
CutBlock(fences, b) ==
  LET cut == {k \in 1..Len(fences) :
                /\ k % 2 = 1
                /\ fences[k] <= b
                /\ k = Len(fences) \/ b < fences[k + 1] + 2}
  IN IF cut = {} THEN 0 ELSE CHOOSE k \in cut : TRUE

\* the chunk from pos may end at e: its size is within the tolerance window
InWindow(pos, e) ==
  /\ e - pos + 1 >= MIN_CHUNK_SIZE
  /\ e - pos + 1 <= MAX_CHUNK_SIZE

\* the end of the chunk that starts at pos and would end at b inside the
\* block that fences[k] opens: just before the opening marker or at the
\* end of the closing marker, whichever is nearer to b and within the
\* window; b itself (a raw split) when neither is
SafeEnd(fences, k, pos, b) ==
  LET back == fences[k] - 1
      forward == IF k < Len(fences) THEN fences[k + 1] + 2 ELSE 0
      backFits == InWindow(pos, back)
      forwardFits == forward # 0 /\ InWindow(pos, forward)
  IN IF backFits /\ forwardFits
     THEN IF b - back <= forward - b THEN back ELSE forward
     ELSE IF backFits THEN back
     ELSE IF forwardFits THEN forward
     ELSE b

\* the end of the chunk that starts at pos and would end at b
SmartEnd(fences, pos, b) ==
  IF CutBlock(fences, b) = 0 THEN b
  ELSE SafeEnd(fences, CutBlock(fences, b), pos, b)

RECURSIVE SmartEnds(_, _, _, _)
\* the ends of the pieces of the fence-aware split, in one forward pass
SmartEnds(length, fences, maxSize, pos) ==
  IF pos > length THEN <<>>
  ELSE IF length - pos + 1 <= maxSize THEN <<length>>
  ELSE <<SmartEnd(fences, pos, pos + maxSize - 1)>>
       \o SmartEnds(length, fences, maxSize,
                    SmartEnd(fences, pos, pos + maxSize - 1) + 1)

\* smartChunkText: the split whose boundaries avoid the fenced blocks
smartChunkText(text, maxSize) ==
  IF TypeOf(text) # "string"
  THEN Throws(ValidationError("Text must be a string"))
  ELSE Returns(BuildChunks(text.val,
                           SmartEnds(Len(text.val), FenceStarts(text.val),
                                     maxSize, 1),
                           1, <<>>))

\* the longest plain text given to the chunker, in pieces of the smallest
\* chunk size
MaxPieces == 3

Letters == <<"a", "b", "c", "d", "e", "f", "g">>

\* a text of the given length whose characters differ from their
\* neighbours, with fence markers at the given positions
FencedText(length, markers) ==
  [i \in 1..length |->
     IF \E s \in markers : s <= i /\ i <= s + 2 THEN BT
     ELSE Letters[(i % 7) + 1]]

ChunkLengths ==
  {0, 1, 199, 200, 999}
  \cup {k * MIN_CHUNK_SIZE + d : k \in 1..MaxPieces, d \in {0, 1, 201, 500}}

\* a block of 500 characters across position 8000 of a text of 9000, a
\* block of 200 characters across position 1000, two blocks, and a block
\* longer than the largest chunk
BlockAcrossBoundary == FencedText(9000, {7800, 8297})
SmallBlock == FencedText(2500, {900, 1097})
TwoBlocks == FencedText(3300, {990, 1190, 2100, 2300})
LongBlock == FencedText(10800, {101, 10604})

ChunkTexts ==
  {FencedText(n, {}) : n \in ChunkLengths}
  \cup {BlockAcrossBoundary, SmallBlock, TwoBlocks, LongBlock}

ChunkInputs == {Str(t) : t \in ChunkTexts} \cup NonStrings

ChunkSizes == {MIN_CHUNK_SIZE, 1001, 1500, 8000, MAX_CHUNK_SIZE}

InitChunk ==
  /\ arg \in ChunkInputs
  /\ maxSafeInputSize = DEFAULT_MAX_SAFE_INPUT_SIZE
  /\ last = NoCall
  /\ ContextInit
  /\ ManagerInit

\* the chunker keeps no state between two calls: a behaviour is one call
ChunkText(maxSize) ==
  /\ last = NoCall
  /\ last' = [op |-> "chunkText", maxSize |-> maxSize,
              out |-> chunkText(arg, maxSize)]
  /\ UNCHANGED <<arg, maxSafeInputSize>>
  /\ UNCHANGED contextVars
  /\ UNCHANGED managerVars

SmartChunkText(maxSize) ==
  /\ last = NoCall
  /\ last' = [op |-> "smartChunkText", maxSize |-> maxSize,
              out |-> smartChunkText(arg, maxSize)]
  /\ UNCHANGED <<arg, maxSafeInputSize>>
  /\ UNCHANGED contextVars
  /\ UNCHANGED managerVars

NextChunk ==
  \/ \E maxSize \in ChunkSizes : ChunkText(maxSize)
  \/ \E maxSize \in ChunkSizes : SmartChunkText(maxSize)

SpecChunk == InitChunk /\ [][NextChunk]_vars

\* a chunk's content without its context prefix
WithoutPrefix(chunk) ==
  IF "contextPrefix" \in DOMAIN chunk
  THEN SubSeq(chunk.content, Len(chunk.contextPrefix) + 1, Len(chunk.content))
  ELSE chunk.content

\* C15: for any text and any maxSize >= MIN_CHUNK_SIZE the chunks of
\* chunkText are in order (indices 0, 1, 2, ...), each chunk after the
\* first starts with its contextPrefix, and the contents without their
\* prefixes, one after the other, are the text: no character is lost or
\* duplicated.
C15_RoundTrip ==
  (Called("chunkText") /\ TypeOf(arg) = "string") =>
    LET chunks == last.out.value
    IN /\ last.out.kind = "returns"
       /\ \A k \in 1..Len(chunks) :
            /\ chunks[k].index = k - 1
            /\ chunks[k].hasContext = (k > 1)
            /\ ("contextPrefix" \in DOMAIN chunks[k]) = (k > 1)
            /\ k > 1 =>
                 SubSeq(chunks[k].content, 1, Len(chunks[k].contextPrefix))
                   = chunks[k].contextPrefix
       /\ Flatten([k \in 1..Len(chunks) |-> WithoutPrefix(chunks[k])],
                  1, Len(chunks)) = Text

\* a text of 2201 characters in chunks of 1000: three chunks, the last
\* one the overlap and one character
C15_Witness ==
  /\ Called("chunkText")
  /\ TypeOf(arg) = "string"
  /\ Len(Text) = 2 * MIN_CHUNK_SIZE + 201
  /\ last.maxSize = MIN_CHUNK_SIZE
  /\ Len(last.out.value) = 3
  /\ Len(last.out.value[3].content) = CONTEXT_OVERLAP_SIZE + 201
  /\ last.out.value[3].contextPrefix = SubSeq(Text, 1801, 2000)

\* the number of fence markers of a text
FenceCount(text) == Len(FenceStarts(text))

\* C16: for a text whose fences are balanced, every chunk of smartChunkText
\* holds an even number of fence markers: no chunk ends inside an open
\* fence. The markers are counted in the chunk without its context prefix.
C16_FenceSafe ==
  (/\ Called("smartChunkText")
   /\ TypeOf(arg) = "string"
   /\ FenceCount(Text) % 2 = 0) =>
    \A k \in 1..Len(last.out.value) :
      FenceCount(WithoutPrefix(last.out.value[k])) % 2 = 0

\* the place of a language in the catalog
CatalogIndex(language) ==
  CHOOSE k \in 1..Len(LANGUAGE_PATTERNS) :
    LANGUAGE_PATTERNS[k].language = language

\* the candidate declared first among those of the highest confidence
FirstOfHighest(detections) ==
  LET at == {k \in 1..Len(detections) :
               \A j \in 1..Len(detections) :
                 detections[j].confidence <= detections[k].confidence}
  IN detections[CHOOSE k \in at : \A j \in at : k <= j]

\* ranked holds the candidates by confidence descending, those of equal
\* confidence in the order of the catalog
Ranked(ranked, detections) ==
  /\ Len(ranked) = Len(detections)
  /\ {ranked[k] : k \in 1..Len(ranked)}
       = {detections[k] : k \in 1..Len(detections)}
  /\ \A i, j \in 1..Len(ranked) :
       i < j =>
         \/ ranked[i].confidence > ranked[j].confidence
         \/ /\ ranked[i].confidence = ranked[j].confidence
            /\ CatalogIndex(ranked[i].language)
                 < CatalogIndex(ranked[j].language)

\* C22: among the languages whose pattern matches, detectLanguage ranks
\* the candidates by confidence descending and keeps those of equal
\* confidence in the order of the catalog; the result is the candidate
\* declared first among those of the highest confidence when that
\* confidence is above 0.3, and confidence 0 without a language otherwise.
C22_TiesKeepCatalogOrder ==
  (Called("detectLanguage") /\ Trim(Text) # <<>>) =>
    /\ Ranked(SortByConfidence(Detections(Text)), Detections(Text))
    /\ last.out =
         IF /\ Detections(Text) # <<>>
            /\ FirstOfHighest(Detections(Text)).confidence > 3
         THEN FirstOfHighest(Detections(Text))
         ELSE [confidence |-> 0]

\* two languages declared early tie at 0.2 and shell, declared last, has
\* 0.4: shell is ranked first and returned, the two others keep their order
C22_Witness ==
  /\ Called("detectLanguage")
  /\ Text = <<"c","i","n","l","e","t","e","c","h","o"," ">>
  /\ SortByConfidence(Detections(Text))
       = <<[language |-> <<"s","h","e","l","l">>, confidence |-> 4],
           [language |-> <<"j","a","v","a","s","c","r","i","p","t">>,
            confidence |-> 2],
           [language |-> <<"c","p","p">>, confidence |-> 2]>>
  /\ last.out = [language |-> <<"s","h","e","l","l">>, confidence |-> 4]

\* the pattern of shell, the only one of the catalog with a capture group
ShellPattern == LANGUAGE_PATTERNS[CatalogIndex(<<"s","h","e","l","l">>)]

\* C25: detectLanguage can only ever return shell: every other language of
\* the catalog gets confidence 0.2 whenever it matches, so the result is
\* shell with confidence 0.4 when the shell pattern matches and confidence
\* 0 without a language otherwise.
C25_OnlyShellIsReturned ==
  Called("detectLanguage") =>
    /\ \A k \in 1..Len(Detections(Text)) :
         Detections(Text)[k].confidence =
           IF Detections(Text)[k].language = ShellPattern.language
           THEN 4 ELSE 2
    /\ last.out =
         IF Trim(Text) # <<>> /\ Test(ShellPattern, Text)
         THEN [language |-> ShellPattern.language, confidence |-> 4]
         ELSE [confidence |-> 0]

\* three occurrences of a javascript keyword and no language is returned
C25_Witness ==
  /\ Called("detectLanguage")
  /\ Text = <<"l","e","t","l","e","t","l","e","t">>
  /\ Detections(Text)
       = <<[language |-> <<"j","a","v","a","s","c","r","i","p","t">>,
            confidence |-> 2]>>
  /\ last.out = [confidence |-> 0]

\* C23: the enhanced transform is idempotent: formatting the result of
\* formatOutput(t, enhanced) in the enhanced format again returns it
\* unchanged, for texts with function_results blocks, augment_code_snippet
\* tags and fenced blocks alike.
C23_EnhanceIdempotent ==
  (/\ Called("formatOutput")
   /\ last.format = "enhanced"
   /\ last.out.kind = "returns") =>
    formatOutput(last.out.value, "enhanced", last.marked, last.hljs)
      = last.out

\* the text is one tagged fenced block between two stretches of plain
\* text: it has two fence markers and no other backtick, a character that
\* is not white space follows the opening one, and there is no markup
OneTaggedBlock(text) ==
  LET ticks == {i \in 1..Len(text) : text[i] = BT}
  IN /\ Cardinality(ticks) = 6
     /\ Cardinality(FenceMarkers(text)) = 2
     /\ \A i \in 1..Len(text) : text[i] # "<"
     /\ LET open == CHOOSE i \in FenceMarkers(text) :
                      \A j \in FenceMarkers(text) : i <= j
        IN text[open + 3] \notin WhiteSpace \cup {BT}

\* the tag as the user wrote it: the characters after the opening fence up
\* to the first white space or the closing fence
UserTag(content) ==
  SubSeq(content, 1, RunEnd(content, 1, {content[i] : i \in 1..Len(content)}
                                          \ (WhiteSpace \cup {BT})) - 1)

\* C24: a fenced block that carries a language tag is re-emitted with
\* exactly that tag and with its content unchanged apart from trimming,
\* whatever the tag, tags with characters that are not word characters
\* (c++, objective-c) included.
C24_TaggedBlockPreserved ==
  (/\ Called("formatOutput")
   /\ last.format \in {"enhanced", "markdown"}
   /\ TypeOf(arg) = "string"
   /\ OneTaggedBlock(Text)) =>
    LET p == BlockParts(Text)
        tag == UserTag(p.content)
    IN last.out =
         Returns(Str(p.before \o <<BT,BT,BT>> \o tag \o <<NL>>
                     \o Trim(SubSeq(p.content, Len(tag) + 1, Len(p.content)))
                     \o <<NL>> \o <<BT,BT,BT>> \o p.after))

(***************************************************************************)
(* Context health against the refresh decision                             *)
(***************************************************************************)
\* the values of fixAugment.contextRefreshThreshold the user may set
Thresholds == {0, 1, 2, CONTEXT_REFRESH_THRESHOLD}

\* the user edits fixAugment.contextRefreshThreshold; the service reads the
\* setting at each call
ConfigureThreshold(threshold) ==
  /\ threshold # contextRefreshThreshold
  /\ contextRefreshThreshold' = threshold
  /\ last' = [op |-> "configureThreshold"]
  /\ UNCHANGED <<arg, maxSafeInputSize, contextExchangeCount,
                 sessionStartTime, lastContextRefresh, filesProcessed, now>>
  /\ UNCHANGED managerVars

InitHealth ==
  /\ arg = Undefined
  /\ maxSafeInputSize = DEFAULT_MAX_SAFE_INPUT_SIZE
  /\ last = NoCall
  /\ contextExchangeCount = 0
  /\ sessionStartTime = 0
  /\ lastContextRefresh = 0
  /\ filesProcessed = 0
  /\ now = 0
  /\ contextRefreshThreshold \in Thresholds
  /\ ManagerInit

NextHealth ==
  \/ NextContext
  \/ \E threshold \in Thresholds : ConfigureThreshold(threshold)

SpecHealth == InitHealth /\ [][NextHealth]_vars

\* the status the claim gives count c under threshold T
StatusAt(c, T) ==
  IF c >= T THEN "red"
  ELSE IF (T * 7) \div 10 <= c THEN "yellow"
  ELSE "green"

Rank(status) ==
  CASE status = "green" -> 0
    [] status = "yellow" -> 1
    [] status = "red" -> 2

IsExtensionError(error) == "type" \in DOMAIN error

\* ErrorHandler.handle: what it writes with console.error; reading
\* error.message of null or undefined throws a TypeError before anything
\* is written
handle(error, where) ==
  IF error.type \in {"null", "undefined"}
  THEN [done |-> Throws([name |-> "TypeError"]), console |-> <<>>]
  ELSE IF IsExtensionError(error.val)
  THEN [done |-> Returns(Undefined),
        console |-> <<[message |-> <<"[", error.val.type, "] ">> \o where
                                     \o <<": ", error.val.message>>,
                       detail |-> error.val]>>]
  ELSE [done |-> Returns(Undefined),
        console |-> <<[message |-> where \o <<": ", error.val.message>>,
                       detail |-> error.val]>>]

\* what the catch block of wrapAsync does once handle has run
NullAfter(handled) ==
  [result |-> IF handled.done.kind = "throws" THEN handled.done
              ELSE Returns(Null),
   console |-> handled.console]

\* a wrapper that lets the failure of fn through
wrapAsyncNoCatch(done, where) == [result |-> done, console |-> <<>>]

\* ErrorHandler.wrapAsync, on how fn completed: its result, or null once
\* the error has been handled
wrapAsync(done, where) ==
  IF done.kind = "throws" THEN NullAfter(handle(done.error, where))
  ELSE [result |-> done, console |-> <<>>]

\* the rest of the registered callback once the awaited wrapAsync settled:
\* the callback returns nothing
CallbackAfter(wrapped) ==
  [completion |-> IF wrapped.result.kind = "throws" THEN wrapped.result
                  ELSE Returns(Undefined),
   wrapped |-> wrapped.result,
   console |-> wrapped.console]

\* async () => { await ErrorHandler.wrapAsync(async () => await handler(),
\*                                            `Command: ${commandId}`) }
commandCallback(done, commandId) ==
  CallbackAfter(wrapAsync(done, <<"Command: ", commandId>>))

(***************************************************************************)
(* ExtensionManager                                                        *)
(***************************************************************************)
TOGGLE_ENHANCEMENT == "fix-augment.toggleEnhancement"

STATUS_BAR_MESSAGES ==
  [ACTIVE |-> "$(megaphone) Augment Fix: ON",
   INACTIVE |-> "$(megaphone) Augment Fix: OFF"]

\* the disposables a context holds
Subscriptions(ctx) == IF ctx = Undefined THEN {} ELSE ctx.subscriptions

\* text.includes of each marker of Augment output
isAugmentOutput(text) ==
  \/ Includes(text, <<BT,BT,BT>>)
  \/ Includes(text, <<"f","u","n","c","t","i","o","n","_","r","e","s","u","l","t","s">>)
  \/ Includes(text, <<"<","a","u","g","m","e","n","t","_","c","o","d","e","_","s","n","i","p","p","e","t">>)
  \/ Includes(text, <<"A","g","e","n","t",":">>)
  \/ Includes(text, <<"N","e","x","t"," ","E","d","i","t",":">>)
  \/ Includes(text, <<"I","n","s","t","r","u","c","t","i","o","n","s",":">>)
  \/ Includes(text, <<"C","h","a","t",":">>)

\* a handler that counts every change of an active enhancement
CountsAnyChange(event) ==
  enhancementActive /\ Len(event.contentChanges) # 0

\* the change reaches incrementExchangeCount: the guard of
\* handleTextDocumentChange and the test of the first content change
CountsChange(event) ==
  /\ enhancementActive
  /\ Len(event.contentChanges) # 0
  /\ isAugmentOutput(event.contentChanges[1].text)

\* this.statusBarItem = createStatusBarItem(...) with the ACTIVE text
createStatusBar ==
  [text |-> STATUS_BAR_MESSAGES.ACTIVE,
   tooltip |-> "Fix Augment is active. Click to toggle.",
   command |-> TOGGLE_ENHANCEMENT]

\* a load that ignores the record of the global state
KeepField(data, name, current) == current

\* loadPersistedState: the value of a field of the service after
\* importSessionData(sessionData), when there is a sessionData
LoadedField(data, name, current) ==
  IF data # Undefined THEN ImportedField(data, name, current) ELSE current

\* ExtensionManager.initialize: the status bar item, the listeners and the
\* persisted state; the flag and the context key are not touched
initialize ==
  /\ statusBarItem' = createStatusBar
  /\ contextExchangeCount' =
       LoadedField(globalState, "contextExchangeCount", contextExchangeCount)
  /\ sessionStartTime' =
       LoadedField(globalState, "sessionStartTime", sessionStartTime)
  /\ lastContextRefresh' =
       LoadedField(globalState, "lastContextRefresh", lastContextRefresh)
  /\ filesProcessed' =
       LoadedField(globalState, "filesProcessed", filesProcessed)
  /\ UNCHANGED <<arg, maxSafeInputSize, now, contextRefreshThreshold,
                 enhancementActive, prompts, globalState>>

InitializeSubscriptions ==
  {"statusBarItem", "onDidChangeTextDocument", "onDidChangeActiveTextEditor",
   "onDidChangeConfiguration"}

\* a call of the public method initialize
Initialize ==
  /\ initialize
  /\ context' = [subscriptions |->
                   Subscriptions(context) \cup InitializeSubscriptions]
  /\ last' = [op |-> "initialize", first |-> context = Undefined]
  /\ UNCHANGED fixAugmentEnabled

\* activate, which the host calls once in a process: initialize, then
\* registerCommands, then setContext fixAugment.enabled true
Activate ==
  /\ context = Undefined
  /\ initialize
  /\ context' = [subscriptions |->
                   InitializeSubscriptions \cup {TOGGLE_ENHANCEMENT}]
  /\ fixAugmentEnabled' = Bool(TRUE)
  /\ last' = [op |-> "activate"]

\* toggleEnhancement: the flag flips first; with a status bar item the text,
\* the tooltip and the context key follow. failure is the error a host call
\* raises, if any: the flag is flipped by then and nothing else is
toggleEnhancement(failure) ==
  /\ enhancementActive' = ~enhancementActive
  /\ IF statusBarItem # Undefined /\ failure = Undefined
     THEN /\ statusBarItem' =
               [statusBarItem EXCEPT
                  !.text = IF ~enhancementActive
                           THEN STATUS_BAR_MESSAGES.ACTIVE
                           ELSE STATUS_BAR_MESSAGES.INACTIVE,
                  !.tooltip = IF ~enhancementActive
                              THEN "Fix Augment is active. Click to toggle."
                              ELSE "Fix Augment is inactive. Click to toggle."]
          /\ fixAugmentEnabled' = Bool(~enhancementActive)
     ELSE UNCHANGED <<statusBarItem, fixAugmentEnabled>>
  /\ UNCHANGED <<arg, maxSafeInputSize, context, prompts, globalState>>
  /\ UNCHANGED contextVars

\* a call of the public method toggleEnhancement
ToggleEnhancement ==
  /\ toggleEnhancement(Undefined)
  /\ last' = [op |-> "toggleEnhancement"]

\* how handler() completed for the callback
Completion(failure) ==
  IF failure = Undefined THEN Returns(Undefined) ELSE Throws(failure)

\* the callback registered for the toggle command runs; a host call of the
\* handler may raise an error
ToggleCommand(failure) ==
  /\ TOGGLE_ENHANCEMENT \in Subscriptions(context)
  /\ failure # Undefined => statusBarItem # Undefined
  /\ toggleEnhancement(failure)
  /\ last' = [op |-> "command", commandId |-> TOGGLE_ENHANCEMENT,
              handler |-> Completion(failure),
              out |-> commandCallback(Completion(failure),
                                      TOGGLE_ENHANCEMENT)]

\* bound of the prompt model: the refresh prompts open at the same time
MaxPrompts == 2

\* handleTextDocumentChange: one run of the listener. The prompt is opened
\* and not awaited, so the handler ends with the prompt pending
HandleTextDocumentChange(event) ==
  /\ "onDidChangeTextDocument" \in Subscriptions(context)
  /\ CountsChange(event) => contextExchangeCount < MaxCount
  /\ UNCHANGED <<arg, maxSafeInputSize, sessionStartTime, lastContextRefresh,
                 filesProcessed, now, contextRefreshThreshold,
                 enhancementActive, statusBarItem, context,
                 fixAugmentEnabled, globalState>>
  /\ IF CountsChange(event)
     THEN /\ contextExchangeCount' = contextExchangeCount + 1
          /\ prompts' = IF shouldRefreshContext' THEN prompts + 1 ELSE prompts
     ELSE UNCHANGED <<contextExchangeCount, prompts>>
  /\ prompts' <= MaxPrompts
  /\ last' = [op |-> "handleTextDocumentChange", event |-> event]

\* the choices of the refresh prompt; "dismissed" stands for the undefined
\* a closed prompt resolves to
PromptAnswers ==
  {"Refresh Now", "Remind Later", "Don't Show Again", "dismissed"}

\* a continuation that refreshes on every choice but a dismissal
AnyChoiceRefreshes(action) == action # "dismissed"

\* if (action === 'Refresh Now')
RefreshChosen(action) == action = "Refresh Now"

\* the rest of showContextRefreshSuggestion once the user has answered one
\* of the pending prompts
RefreshSuggestionAnswered(action) ==
  /\ prompts > 0
  /\ prompts' = prompts - 1
  /\ IF RefreshChosen(action)
     THEN /\ contextExchangeCount' = 0
          /\ lastContextRefresh' = now
     ELSE UNCHANGED <<contextExchangeCount, lastContextRefresh>>
  /\ last' = [op |-> "refreshSuggestionAnswered", action |-> action]
  /\ UNCHANGED <<arg, maxSafeInputSize, sessionStartTime, filesProcessed,
                 now, contextRefreshThreshold, enhancementActive,
                 statusBarItem, context, fixAugmentEnabled, globalState>>

\* dispose: saveState runs up to its await, so the record is exported and
\* handed to globalState.update within the call; the field statusBarItem
\* keeps the disposed item
Dispose ==
  /\ globalState' = IF context # Undefined THEN exportSessionData
                    ELSE globalState
  /\ last' = [op |-> "dispose"]
  /\ UNCHANGED <<arg, maxSafeInputSize, enhancementActive, statusBarItem,
                 context, fixAugmentEnabled, prompts>>
  /\ UNCHANGED contextVars

\* the host process ends and a new one starts: the singletons are
\* constructed anew, the global state is what was stored
Restart ==
  /\ contextExchangeCount' = 0
  /\ sessionStartTime' = now
  /\ lastContextRefresh' = now
  /\ filesProcessed' = 0
  /\ enhancementActive' = TRUE
  /\ statusBarItem' = Undefined
  /\ context' = Undefined
  /\ fixAugmentEnabled' = Undefined
  /\ prompts' = 0
  /\ last' = [op |-> "restart"]
  /\ UNCHANGED <<arg, maxSafeInputSize, now, contextRefreshThreshold,
                 globalState>>

ErrorValue(e) == [type |-> "object", val |-> e]

\* the errors a host call may raise: a plain Error and an ExtensionError
HostErrors ==
  {ErrorValue([name |-> "Error", message |-> "host call failed"]),
   ErrorValue([name |-> "UIError", type |-> "UI_ERROR",
               message |-> "status bar unavailable"])}

ChangeEvent(texts) ==
  [contentChanges |-> [k \in 1..Len(texts) |-> [text |-> texts[k]]]]

\* document changes: without content change, with plain text, with each
\* marker of Augment output, with a marker in the second change only
ChangeEvents ==
  {ChangeEvent(<<>>),
   ChangeEvent(<< <<>> >>),
   ChangeEvent(<< <<"h","e","l","l","o">> >>),
   ChangeEvent(<< <<"a","g","e","n","t",":">> >>),
   ChangeEvent(<< <<"x",BT,BT,BT>> >>),
   ChangeEvent(<< <<"f","u","n","c","t","i","o","n","_","r","e","s","u","l","t","s">> >>),
   ChangeEvent(<< <<"<","a","u","g","m","e","n","t","_","c","o","d","e","_","s","n","i","p","p","e","t",">">> >>),
   ChangeEvent(<< <<"A","g","e","n","t",":"," ","o","k">> >>),
   ChangeEvent(<< <<"N","e","x","t"," ","E","d","i","t",":">> >>),
   ChangeEvent(<< <<"I","n","s","t","r","u","c","t","i","o","n","s",":">> >>),
   ChangeEvent(<< <<"C","h","a","t",":">>, <<"h","e","l","l","o">> >>),
   ChangeEvent(<< <<"h","e","l","l","o">>, <<"C","h","a","t",":">> >>)}

\* thresholds the counter reaches within MaxCount
ManagerThresholds == {1, 2}

InitManager ==
  /\ arg = Undefined
  /\ maxSafeInputSize = DEFAULT_MAX_SAFE_INPUT_SIZE
  /\ last = NoCall
  /\ contextExchangeCount = 0
  /\ sessionStartTime = 0
  /\ lastContextRefresh = 0
  /\ filesProcessed = 0
  /\ now = 0
  /\ contextRefreshThreshold \in ManagerThresholds
  /\ ManagerInit

NextManager ==
  \/ Activate
  \/ Initialize
  \/ ToggleEnhancement
  \/ \E failure \in {Undefined} \cup HostErrors : ToggleCommand(failure)
  \/ \E event \in ChangeEvents : HandleTextDocumentChange(event)
  \/ \E action \in PromptAnswers : RefreshSuggestionAnswered(action)

SpecManager == InitManager /\ [][NextManager]_vars

\* C21: every error a registered command handler raises is caught at the
\* command boundary: the registered callback completes without rejecting,
\* wrapAsync returns null in place of the handler's result when the
\* handler fails and the handler's result otherwise, and the error is
\* written to the console exactly once.
C21_ErrorsCaughtAtBoundary ==
  Called("command") =>
    /\ last.out.completion = Returns(Undefined)
    /\ last.out.wrapped = IF last.handler.kind = "throws"
                          THEN Returns(Null) ELSE last.handler
    /\ Len(last.out.console) = IF last.handler.kind = "throws" THEN 1 ELSE 0
    /\ last.handler.kind = "throws" =>
         last.out.console[1].detail = last.handler.error.val

\* the toggle command failed with an error of the extension: the callback
\* completed and the error was written once, with its type and the command
C21_Witness ==
  /\ Called("command")
  /\ last.handler.kind = "throws"
  /\ last.out.completion = Returns(Undefined)
  /\ last.out.wrapped = Returns(Null)
  /\ last.out.console
       = <<[message |-> <<"[", "UI_ERROR", "] ", "Command: ",
                          "fix-augment.toggleEnhancement", ": ",
                          "status bar unavailable">>,
            detail |-> [name |-> "UIError", type |-> "UI_ERROR",
                        message |-> "status bar unavailable"]]>>

\* C27: after any sequence of initialize and toggleEnhancement calls the
\* status bar text and the fixAugment.enabled context key agree with the
\* enhancementActive flag (the ACTIVE text and true iff the flag is true),
\* and each toggle inverts the flag, so that two consecutive toggles
\* restore the flag, the text and the key.
C27_StatusFollowsFlag ==
  /\ [](statusBarItem # Undefined =>
          /\ (statusBarItem.text = STATUS_BAR_MESSAGES.ACTIVE)
               <=> enhancementActive
          /\ (statusBarItem.text = STATUS_BAR_MESSAGES.INACTIVE)
               <=> ~enhancementActive
          /\ fixAugmentEnabled # Undefined =>
               fixAugmentEnabled = Bool(enhancementActive))
  /\ [][last'.op \in {"toggleEnhancement", "command"} =>
          enhancementActive' = ~enhancementActive]_vars

FullRecord ==
  [type |-> "object", contextExchangeCount |-> Num(1),
   sessionStartTime |-> Num(1), lastContextRefresh |-> Num(1),
   filesProcessed |-> Num(1)]

PersistRecords ==
  {[k \in {"type"} \cup S |-> FullRecord[k]] : S \in SUBSET SessionFields}

InitPersist ==
  /\ arg = Undefined
  /\ maxSafeInputSize = DEFAULT_MAX_SAFE_INPUT_SIZE
  /\ last = NoCall
  /\ ContextInit
  /\ ManagerInit

NextPersist ==
  \/ Tick
  \/ IncrementExchangeCount
  \/ \E data \in PersistRecords \cup {exportSessionData} :
       ImportSessionData(data)
  \/ Initialize
  \/ Dispose
  \/ Restart

SpecPersist == InitPersist /\ [][NextPersist]_vars

\* the field of the service a record field is stored in
SessionField(name) ==
  CASE name = "contextExchangeCount" -> contextExchangeCount
    [] name = "sessionStartTime" -> sessionStartTime
    [] name = "lastContextRefresh" -> lastContextRefresh
    [] name = "filesProcessed" -> filesProcessed

\* C30: importSessionData(exportSessionData()) leaves the four fields
\* unchanged; importing a record changes exactly the fields the record
\* has, to the record's values; dispose stores the export of the fields as
\* they are at that time, nothing else changes the stored record, and an
\* initialize that finds a stored record sets the four fields to it.
C30_PersistenceRoundTrips ==
  [][/\ (last'.op = "importSessionData" /\ last'.data = exportSessionData)
          => UNCHANGED <<contextExchangeCount, sessionStartTime,
                         lastContextRefresh, filesProcessed>>
     /\ last'.op = "importSessionData" =>
          \A name \in SessionFields :
            SessionField(name)' = IF name \in DOMAIN last'.data
                                  THEN last'.data[name].val
                                  ELSE SessionField(name)
     /\ (last'.op = "dispose" /\ context # Undefined) =>
          /\ globalState' = exportSessionData
          /\ exportSessionData' = exportSessionData
     /\ globalState' # globalState => last'.op = "dispose"
     /\ (last'.op = "initialize" /\ globalState # Undefined) =>
          exportSessionData' = globalState]_vars

\* the first initialize of a new process found the record of an earlier
\* dispose and restored a session that started before this process
C30_Witness ==
  /\ last = [op |-> "initialize", first |-> TRUE]
  /\ globalState # Undefined
  /\ exportSessionData = globalState
  /\ contextExchangeCount = MaxCount
  /\ sessionStartTime = 0
  /\ now = MaxTime

====
